---- MODULE Spec2Model ----
(***************************************************************************)
(* Model of the gestational-age calculator (backend/utils/gestation.py)    *)
(* and of the lab status / delta evaluator (backend/api/labs.py) of the    *)
(* hashimom backend.                                                       *)
(*                                                                         *)
(* Dates are proleptic Gregorian ordinals, as date.toordinal() gives them: *)
(* date.min is ordinal 1.  Python's None is the empty sequence and a       *)
(* present value x is <<x>>, so that "absent" and "present" compare.       *)
(***************************************************************************)
EXTENDS Integers, Sequences, FiniteSets, TLC

VARIABLES
    arg_date,   \* calculator: the lmp_date / due_date argument (None or a date)
    arg_today,  \* calculator: the today argument (None or a date)
    calc,       \* calculator: the call made on the arguments and its outcome
    users,      \* table User: the nicknames, a user's id is its position
    labs,       \* table Lab: the rows in insertion order, a row's id is its position
    profiles,   \* table Profile: the rows in insertion order
    ranges,     \* table ReferenceRange: the rows in insertion order
    clock,      \* date.today(): the day the process clock shows
    resp,       \* the last request served and its response
    symptoms,   \* table Symptom: the rows in insertion order
    medications,\* table Medication: the rows in insertion order
    scans,      \* table GlutenScan: the rows in insertion order
    messages,   \* table AIMessage: the rows in insertion order
    session,    \* the browser's session cookie: its user_id, if it has one
    inflight,   \* the handlers running at once: each one's position and locals
    schema      \* what models.py declares and the sources do not show

calc_vars == <<arg_date, arg_today, calc>>
diary_vars == <<symptoms, medications, scans, messages>>
db_vars == <<users, labs, profiles, ranges, diary_vars>>
io_vars == <<session, inflight, schema>>
vars == <<arg_date, arg_today, calc, users, labs, profiles, ranges, clock, resp,
          symptoms, medications, scans, messages, session, inflight, schema>>

None == <<>>
Some(x) == <<x>>
IsNone(o) == o = None
Val(o) == o[1]

\* The outcome of a call: a returned value or a raised exception.
Return(v) == [raised |-> "", value |-> <<v>>]
Raise(e) == [raised |-> e, value |-> <<>>]

(***************************************************************************)
(* Bounds of the calculator's inputs.                                      *)
(***************************************************************************)
MaxDay == 200
\* the day the process clock shows when the API specifications start
StartDay == 1000

\* date.min.toordinal(): date - timedelta below it raises OverflowError
DateMinOrdinal == 1
\* timedelta(days=280) of calculate_by_due
GestationDays == 280

Days == DateMinOrdinal..MaxDay
ArgDates == DateMinOrdinal..(MaxDay + GestationDays)

(***************************************************************************)
(* utils/gestation.py                                                      *)
(***************************************************************************)
NullResult == [weeks |-> None, days |-> None, trimester |-> "-"]

\* a classifier that puts week 12 in T2 and week 27 in T3
_classify_trimester_strict(weeks) ==
    IF IsNone(weeks) THEN "-"
    ELSE IF Val(weeks) < 12 THEN "T1"
    ELSE IF Val(weeks) < 27 THEN "T2"
    ELSE "T3"

_classify_trimester(weeks) ==
    IF IsNone(weeks) THEN "-"
    ELSE IF Val(weeks) <= 12 THEN "T1"
    ELSE IF Val(weeks) <= 27 THEN "T2"
    ELSE "T3"

\* a calculator that takes the remainder for the weeks' days from 6, not 7
calculate_by_lmp_rem6(lmp_date, today) ==
    IF IsNone(lmp_date) \/ IsNone(today) THEN NullResult
    ELSE LET days_delta == Val(today) - Val(lmp_date) IN
         IF days_delta < 0 THEN NullResult
         ELSE LET weeks == days_delta \div 7
                  days == days_delta % 6
              IN [weeks |-> Some(weeks), days |-> Some(days),
                  trimester |-> _classify_trimester(Some(weeks))]

calculate_by_lmp(lmp_date, today) ==
    IF IsNone(lmp_date) \/ IsNone(today) THEN NullResult
    ELSE LET days_delta == Val(today) - Val(lmp_date) IN
         IF days_delta < 0 THEN NullResult
         ELSE LET weeks == days_delta \div 7
                  days == days_delta % 7
              IN [weeks |-> Some(weeks), days |-> Some(days),
                  trimester |-> _classify_trimester(Some(weeks))]

\* due_date - timedelta(days=280): a date, or OverflowError below date.min
DateMinusDays(d, n) ==
    IF d - n < DateMinOrdinal THEN Raise("OverflowError") ELSE Return(d - n)

\* a calculator that takes 40 weeks less a day (279 days) for the gestation
calculate_by_due_279(due_date, today) ==
    IF IsNone(due_date) \/ IsNone(today) THEN Return(NullResult)
    ELSE LET lmp == DateMinusDays(Val(due_date), GestationDays - 1) IN
         IF lmp.raised # "" THEN Raise(lmp.raised)
         ELSE Return(calculate_by_lmp(lmp.value, today))

calculate_by_due(due_date, today) ==
    IF IsNone(due_date) \/ IsNone(today) THEN Return(NullResult)
    ELSE LET lmp == DateMinusDays(Val(due_date), GestationDays) IN
         IF lmp.raised # "" THEN Raise(lmp.raised)
         ELSE Return(calculate_by_lmp(lmp.value, today))

(***************************************************************************)
(* Text and numbers.  A str is a sequence of one-character strings.  A     *)
(* float is kept exactly: a finite value is m / 10^s, and nan, inf and     *)
(* -inf are values of their own, compared as IEEE 754 compares them.  The  *)
(* characters that float() and str.upper() treat specially and that are    *)
(* not modelled ("e"/"E" exponents, "_" digit grouping, whitespace other   *)
(* than " ", non-ASCII letters and digits) occur in no text of the model.  *)
(***************************************************************************)
DigitChars == <<"0", "1", "2", "3", "4", "5", "6", "7", "8", "9">>
LowerChars == <<"a", "b", "c", "d", "e", "f", "g", "h", "i", "j", "k", "l", "m",
                "n", "o", "p", "q", "r", "s", "t", "u", "v", "w", "x", "y", "z">>
UpperChars == <<"A", "B", "C", "D", "E", "F", "G", "H", "I", "J", "K", "L", "M",
                "N", "O", "P", "Q", "R", "S", "T", "U", "V", "W", "X", "Y", "Z">>

IsDigit(c) == \E i \in 1..Len(DigitChars) : DigitChars[i] = c
DigitVal(c) == (CHOOSE i \in 1..Len(DigitChars) : DigitChars[i] = c) - 1

UpperChar(c) ==
    IF \E i \in 1..Len(LowerChars) : LowerChars[i] = c
    THEN UpperChars[CHOOSE i \in 1..Len(LowerChars) : LowerChars[i] = c]
    ELSE c
LowerChar(c) ==
    IF \E i \in 1..Len(UpperChars) : UpperChars[i] = c
    THEN LowerChars[CHOOSE i \in 1..Len(UpperChars) : UpperChars[i] = c]
    ELSE c

\* str.upper()
upper(t) == [i \in 1..Len(t) |-> UpperChar(t[i])]
\* str.lower()
lower(t) == [i \in 1..Len(t) |-> LowerChar(t[i])]

\* str.strip(), as float() applies it to its argument
strip(t) ==
    LET keep == {i \in 1..Len(t) : t[i] # " "} IN
    IF keep = {} THEN <<>>
    ELSE LET first == CHOOSE i \in keep : \A j \in keep : i <= j
             last == CHOOSE i \in keep : \A j \in keep : j <= i
         IN SubSeq(t, first, last)

RECURSIVE Pow10(_)
Pow10(n) == IF n <= 0 THEN 1 ELSE 10 * Pow10(n - 1)

RECURSIVE DigitsValue(_)
DigitsValue(ds) ==
    IF ds = <<>> THEN 0
    ELSE 10 * DigitsValue(SubSeq(ds, 1, Len(ds) - 1)) + DigitVal(ds[Len(ds)])

AllDigits(ds) == \A i \in 1..Len(ds) : IsDigit(ds[i])

Finite(m, s) == [kind |-> "finite", m |-> m, s |-> s]
NaN == [kind |-> "nan", m |-> 0, s |-> 0]
Inf(sign) == [kind |-> "inf", m |-> sign, s |-> 0]

\* the decimal digits[.digits] | .digits of an unsigned float literal
ParseDecimal(body) ==
    LET dots == {i \in 1..Len(body) : body[i] = "."} IN
    IF Cardinality(dots) > 1 THEN None
    ELSE LET dot == IF dots = {} THEN Len(body) + 1 ELSE CHOOSE i \in dots : TRUE
             int == SubSeq(body, 1, dot - 1)
             frac == SubSeq(body, dot + 1, Len(body))
         IN IF AllDigits(int) /\ AllDigits(frac) /\ Len(int) + Len(frac) > 0
            THEN Some(Finite(DigitsValue(int \o frac), Len(frac)))
            ELSE None

\* float(text): None stands for the ValueError of a text that is no number
float(text) ==
    LET t == strip(text)
        signed == t # <<>> /\ t[1] \in {"+", "-"}
        sign == IF signed /\ t[1] = "-" THEN -1 ELSE 1
        body == IF signed THEN Tail(t) ELSE t
        word == lower(body)
    IN IF word = <<"n", "a", "n">> THEN Some(NaN)
       ELSE IF word = <<"i", "n", "f">>
               \/ word = <<"i", "n", "f", "i", "n", "i", "t", "y">>
            THEN Some(Inf(sign))
       ELSE LET dec == ParseDecimal(body) IN
            IF IsNone(dec) THEN None
            ELSE Some(Finite(sign * Val(dec).m, Val(dec).s))

\* a < b on floats
NumLt(a, b) ==
    IF a.kind = "nan" \/ b.kind = "nan" THEN FALSE
    ELSE IF a.kind = "inf" THEN a.m < 0 /\ ~(b.kind = "inf" /\ b.m < 0)
    ELSE IF b.kind = "inf" THEN b.m > 0
    ELSE a.m * Pow10(b.s) < b.m * Pow10(a.s)
NumGt(a, b) == NumLt(b, a)
\* a == b on floats
NumEq(a, b) ==
    IF a.kind = "nan" \/ b.kind = "nan" THEN FALSE
    ELSE IF a.kind = "inf" \/ b.kind = "inf" THEN a.kind = b.kind /\ a.m = b.m
    ELSE a.m * Pow10(b.s) = b.m * Pow10(a.s)
Zero == Finite(0, 0)

Sign(n) == IF n < 0 THEN -1 ELSE IF n > 0 THEN 1 ELSE 0
Abs(n) == IF n < 0 THEN -n ELSE n

\* the integer nearest to n / d (d > 0), a half going to the even neighbour:
\* round() of a value that lies exactly between two results
RoundHalfEven(n, d) ==
    LET q == n \div d
        r == n - q * d
    IN IF 2 * r < d THEN q
       ELSE IF 2 * r > d THEN q + 1
       ELSE IF q % 2 = 0 THEN q ELSE q + 1

\* n / d cut towards minus infinity, not rounded
PctTruncated(curr, prev_val) ==
    LET S == IF curr.s > prev_val.s THEN curr.s ELSE prev_val.s
        c == curr.m * Pow10(S - curr.s)
        p == prev_val.m * Pow10(S - prev_val.s)
    IN Finite((1000 * (c - p) * Sign(p)) \div Abs(p), 1)

\* the change with its operands exchanged: (prev_val - curr) / prev_val
PctSwapped(curr, prev_val) ==
    LET S == IF curr.s > prev_val.s THEN curr.s ELSE prev_val.s
        c == curr.m * Pow10(S - curr.s)
        p == prev_val.m * Pow10(S - prev_val.s)
    IN Finite(RoundHalfEven(1000 * (p - c) * Sign(p), Abs(p)), 1)

\* round(((curr - prev_val) / prev_val) * 100.0, 1) for finite values,
\* prev_val # 0: the result in tenths
PctFinite(curr, prev_val) ==
    LET S == IF curr.s > prev_val.s THEN curr.s ELSE prev_val.s
        c == curr.m * Pow10(S - curr.s)
        p == prev_val.m * Pow10(S - prev_val.s)
    IN Finite(RoundHalfEven(1000 * (c - p) * Sign(p), Abs(p)), 1)

\* round(((curr - prev_val) / prev_val) * 100.0, 1) on floats, prev_val # 0
PctRounded(curr, prev_val) ==
    IF curr.kind = "nan" \/ prev_val.kind = "nan" THEN NaN
    ELSE IF prev_val.kind = "inf" THEN NaN
    ELSE IF curr.kind = "inf" THEN Inf(curr.m * Sign(prev_val.m))
    ELSE PctFinite(curr, prev_val)

(***************************************************************************)
(* seed_reference_ranges.py                                                *)
(***************************************************************************)
TSH == <<"T", "S", "H">>
FT4 == <<"F", "T", "4">>
TPOAB == <<"T", "P", "O", "A", "B">>
TGAB == <<"T", "G", "A", "B">>
\* names users give that are no row of SEED
tsh == <<"t", "s", "h">>
FT3 == <<"F", "T", "3">>

\* a float literal with one decimal, as SEED writes its bounds: tenths / 10
Dec1(tenths) == Finite(tenths, 1)

Range(analyte, tri, low, high, unit) ==
    [analyte |-> analyte, trimester |-> tri, low |-> low, high |-> high, unit |-> unit]

SEED == <<
    Range(TSH, "T1", Dec1(1), Dec1(25), "mIU/L"),
    Range(TSH, "T2", Dec1(2), Dec1(30), "mIU/L"),
    Range(TSH, "T3", Dec1(3), Dec1(30), "mIU/L"),
    Range(FT4, "T1", Dec1(8), Dec1(17), "ng/dL"),
    Range(FT4, "T2", Dec1(7), Dec1(16), "ng/dL"),
    Range(FT4, "T3", Dec1(7), Dec1(15), "ng/dL"),
    Range(TPOAB, "T1", Dec1(0), Dec1(350), "IU/mL"),
    Range(TPOAB, "T2", Dec1(0), Dec1(350), "IU/mL"),
    Range(TPOAB, "T3", Dec1(0), Dec1(350), "IU/mL"),
    Range(TGAB, "T1", Dec1(0), Dec1(350), "IU/mL"),
    Range(TGAB, "T2", Dec1(0), Dec1(350), "IU/mL"),
    Range(TGAB, "T3", Dec1(0), Dec1(350), "IU/mL") >>

\* ReferenceRange.query.filter_by(analyte=..., trimester=...).first()
RangeFirst(rows, analyte, tri) ==
    LET hits == {i \in 1..Len(rows) :
                    rows[i].analyte = analyte /\ rows[i].trimester = tri}
    IN IF hits = {} THEN None
       ELSE Some(rows[CHOOSE i \in hits : \A j \in hits : i <= j])

\* seed(): every SEED row updates the row of its (analyte, trimester) or is added
RECURSIVE SeedRows(_, _)
SeedRows(rows, k) ==
    IF k > Len(SEED) THEN rows
    ELSE LET row == SEED[k]
             hits == {i \in 1..Len(rows) : rows[i].analyte = row.analyte
                                           /\ rows[i].trimester = row.trimester}
         IN IF hits = {} THEN SeedRows(Append(rows, row), k + 1)
            ELSE LET at == CHOOSE i \in hits : \A j \in hits : i <= j
                 IN SeedRows([rows EXCEPT ![at] = row], k + 1)

(***************************************************************************)
(* api/utils.py, api/labs.py                                               *)
(***************************************************************************)
\* current_user(): the User of the session's user_id, if the session has one
current_user(user_rows, sess) ==
    IF IsNone(sess) THEN None
    ELSE IF Val(sess) \in 1..Len(user_rows) THEN sess ELSE None

\* Profile.query.filter_by(user_id=...).first()
ProfileFirst(rows, user_id) ==
    LET hits == {i \in 1..Len(rows) : rows[i].user_id = user_id}
    IN IF hits = {} THEN None
       ELSE Some(rows[CHOOSE i \in hits : \A j \in hits : i <= j])

\* Lab.query.filter_by(user_id=..., id=...).first()
LabFirst(rows, user_id, lab_id) ==
    LET hits == {i \in 1..Len(rows) : rows[i].user_id = user_id /\ rows[i].id = lab_id}
    IN IF hits = {} THEN None
       ELSE Some(rows[CHOOSE i \in hits : \A j \in hits : i <= j])

\* the trimester of a profile on the day `now`: None, "-", "T1", "T2" or "T3"
_current_trimester(profile, now) ==
    IF IsNone(profile) THEN Return(None)
    ELSE IF ~IsNone(Val(profile).lmp_date)
         THEN Return(Some(calculate_by_lmp(Val(profile).lmp_date, Some(now)).trimester))
    ELSE IF ~IsNone(Val(profile).due_date)
         THEN LET res == calculate_by_due(Val(profile).due_date, Some(now)) IN
              IF res.raised # "" THEN Raise(res.raised)
              ELSE Return(Some(res.value[1].trimester))
    ELSE Return(None)

TrimesterLabels == {"T1", "T2", "T3"}

\* a status that counts a value on a bound of the range as outside it
_status_for_lab_exclusive(range_rows, lab, trimester) ==
    LET value == float(lab.result) IN
    IF IsNone(value) THEN "NA"
    ELSE IF IsNone(trimester) \/ Val(trimester) \notin TrimesterLabels THEN "NA"
    ELSE LET rr == RangeFirst(range_rows, upper(lab.test_name), Val(trimester)) IN
         IF IsNone(rr) THEN "NA"
         ELSE IF ~NumGt(Val(value), Val(rr).low) THEN "LOW"
         ELSE IF ~NumLt(Val(value), Val(rr).high) THEN "HIGH"
         ELSE "NORMAL"

\* a status without the "if not rr" check: the AttributeError of rr.low on
\* None, being no value, is shown as the status "AttributeError"
_status_for_lab_nodefault(range_rows, lab, trimester) ==
    LET value == float(lab.result) IN
    IF IsNone(value) THEN "NA"
    ELSE IF IsNone(trimester) \/ Val(trimester) \notin TrimesterLabels THEN "NA"
    ELSE LET rr == RangeFirst(range_rows, upper(lab.test_name), Val(trimester)) IN
         IF IsNone(rr) THEN "AttributeError"
         ELSE IF NumLt(Val(value), Val(rr).low) THEN "LOW"
         ELSE IF NumGt(Val(value), Val(rr).high) THEN "HIGH"
         ELSE "NORMAL"

\* a status that looks the range up under the name as the user wrote it
_status_for_lab_exact(range_rows, lab, trimester) ==
    LET value == float(lab.result) IN
    IF IsNone(value) THEN "NA"
    ELSE IF IsNone(trimester) \/ Val(trimester) \notin TrimesterLabels THEN "NA"
    ELSE LET rr == RangeFirst(range_rows, lab.test_name, Val(trimester)) IN
         IF IsNone(rr) THEN "NA"
         ELSE IF NumLt(Val(value), Val(rr).low) THEN "LOW"
         ELSE IF NumGt(Val(value), Val(rr).high) THEN "HIGH"
         ELSE "NORMAL"

_status_for_lab(range_rows, lab, trimester) ==
    LET value == float(lab.result) IN
    IF IsNone(value) THEN "NA"
    ELSE IF IsNone(trimester) \/ Val(trimester) \notin TrimesterLabels THEN "NA"
    ELSE LET rr == RangeFirst(range_rows, upper(lab.test_name), Val(trimester)) IN
         IF IsNone(rr) THEN "NA"
         ELSE IF NumLt(Val(value), Val(rr).low) THEN "LOW"
         ELSE IF NumGt(Val(value), Val(rr).high) THEN "HIGH"
         ELSE "NORMAL"

\* a filter that takes the rows inserted before the lab, whatever their date
IsPriorById(row, user_id, lab) ==
    /\ row.user_id = user_id
    /\ row.test_name = lab.test_name
    /\ row.id < lab.id

\* a filter that takes the earlier rows of the analyte of every user
IsPriorAnyUser(row, user_id, lab) ==
    /\ row.test_name = lab.test_name
    /\ (row.test_date < lab.test_date
        \/ (row.test_date = lab.test_date /\ row.id < lab.id))

\* a filter that takes every other row of the user and analyte, later ones too
IsPriorAnyDate(row, user_id, lab) ==
    /\ row.user_id = user_id
    /\ row.test_name = lab.test_name
    /\ row.id # lab.id

\* the filter of the previous-result query
IsPrior(row, user_id, lab) ==
    /\ row.user_id = user_id
    /\ row.test_name = lab.test_name
    /\ (row.test_date < lab.test_date
        \/ (row.test_date = lab.test_date /\ row.id < lab.id))

\* an ordering that puts the oldest row first
SortsBeforeAsc(a, b) ==
    \/ a.test_date < b.test_date
    \/ (a.test_date = b.test_date /\ a.id < b.id)

\* a comes before b under ORDER BY test_date DESC, id DESC
SortsBefore(a, b) ==
    \/ a.test_date > b.test_date
    \/ (a.test_date = b.test_date /\ a.id > b.id)

\* .order_by(Lab.test_date.desc(), Lab.id.desc()).first() of the rows given
RECURSIVE FirstDesc(_)
FirstDesc(rows) ==
    IF rows = <<>> THEN None
    ELSE LET rest == FirstDesc(Tail(rows)) IN
         IF IsNone(rest) \/ SortsBefore(Head(rows), Val(rest))
         THEN Some(Head(rows)) ELSE rest

\* the previous-result query of _delta_for_lab
PrevLab(lab_rows, user_id, lab) ==
    FirstDesc(SelectSeq(lab_rows, LAMBDA row : IsPrior(row, user_id, lab)))

\* a delta with no guard on a previous value of zero: the ZeroDivisionError,
\* being no value, is shown as nan
_delta_for_lab_nozero(lab_rows, user_id, lab) ==
    LET curr == float(lab.result) IN
    IF IsNone(curr) THEN None
    ELSE LET prev == PrevLab(lab_rows, user_id, lab) IN
         IF IsNone(prev) THEN None
         ELSE LET prev_val == float(Val(prev).result) IN
              IF IsNone(prev_val) THEN None
              ELSE IF NumEq(Val(prev_val), Zero) THEN Some(NaN)
              ELSE Some(PctRounded(Val(curr), Val(prev_val)))

_delta_for_lab(lab_rows, user_id, lab) ==
    LET curr == float(lab.result) IN
    IF IsNone(curr) THEN None
    ELSE LET prev == PrevLab(lab_rows, user_id, lab) IN
         IF IsNone(prev) THEN None
         ELSE LET prev_val == float(Val(prev).result) IN
              IF IsNone(prev_val) THEN None
              ELSE IF NumEq(Val(prev_val), Zero) THEN None
              ELSE Some(PctRounded(Val(curr), Val(prev_val)))

\* Lab.to_dict()
to_dict(lab) ==
    [id |-> lab.id, test_name |-> lab.test_name, result |-> lab.result,
     units |-> lab.units, test_date |-> lab.test_date]

\* the added fields with the trimester passed on as it is, a missing one
\* shown as "null", not as "-"
Enriched_nodash(lab_rows, range_rows, user_id, lab, tri) ==
    LET rr == IF ~IsNone(tri) /\ Val(tri) \in TrimesterLabels
              THEN RangeFirst(range_rows, upper(lab.test_name), Val(tri))
              ELSE None
        d == to_dict(lab)
    IN [id |-> d.id, test_name |-> d.test_name, result |-> d.result,
        units |-> d.units, test_date |-> d.test_date,
        trimester |-> IF IsNone(tri) THEN "null" ELSE Val(tri),
        status |-> _status_for_lab(range_rows, lab, tri),
        delta |-> _delta_for_lab(lab_rows, user_id, lab),
        ref_low |-> IF IsNone(rr) THEN None ELSE Some(Val(rr).low),
        ref_high |-> IF IsNone(rr) THEN None ELSE Some(Val(rr).high),
        ref_unit |-> IF IsNone(rr) THEN None ELSE Some(Val(rr).unit)]

\* the added fields with the range of the first trimester, whatever the
\* trimester of the profile
Enriched_first_range(lab_rows, range_rows, user_id, lab, tri) ==
    LET rr == IF ~IsNone(tri) /\ Val(tri) \in TrimesterLabels
              THEN RangeFirst(range_rows, upper(lab.test_name), "T1")
              ELSE None
        d == to_dict(lab)
    IN [id |-> d.id, test_name |-> d.test_name, result |-> d.result,
        units |-> d.units, test_date |-> d.test_date,
        trimester |-> IF IsNone(tri) THEN "-" ELSE Val(tri),
        status |-> _status_for_lab(range_rows, lab, tri),
        delta |-> _delta_for_lab(lab_rows, user_id, lab),
        ref_low |-> IF IsNone(rr) THEN None ELSE Some(Val(rr).low),
        ref_high |-> IF IsNone(rr) THEN None ELSE Some(Val(rr).high),
        ref_unit |-> IF IsNone(rr) THEN None ELSE Some(Val(rr).unit)]

\* lab.to_dict() with the fields the three handlers of labs.py add to it
Enriched(lab_rows, range_rows, user_id, lab, tri) ==
    LET rr == IF ~IsNone(tri) /\ Val(tri) \in TrimesterLabels
              THEN RangeFirst(range_rows, upper(lab.test_name), Val(tri))
              ELSE None
        d == to_dict(lab)
    IN [id |-> d.id, test_name |-> d.test_name, result |-> d.result,
        units |-> d.units, test_date |-> d.test_date,
        trimester |-> IF IsNone(tri) THEN "-" ELSE Val(tri),
        status |-> _status_for_lab(range_rows, lab, tri),
        delta |-> _delta_for_lab(lab_rows, user_id, lab),
        ref_low |-> IF IsNone(rr) THEN None ELSE Some(Val(rr).low),
        ref_high |-> IF IsNone(rr) THEN None ELSE Some(Val(rr).high),
        ref_unit |-> IF IsNone(rr) THEN None ELSE Some(Val(rr).unit)]

\* the rows of a user under ORDER BY test_date ASC, id ASC
RECURSIVE SortAsc(_)
SortAsc(rows) ==
    IF rows = <<>> THEN <<>>
    ELSE LET least == CHOOSE i \in 1..Len(rows) :
                          \A j \in 1..Len(rows) : j = i \/ SortsBefore(rows[j], rows[i])
         IN <<rows[least]>>
            \o SortAsc(SubSeq(rows, 1, least - 1) \o SubSeq(rows, least + 1, Len(rows)))

\* a response: the request it answers, the HTTP status and the JSON objects
\* of its body (the error bodies carry no lab and are left empty)
Response(op, sess, lab_id, code, body) ==
    [op |-> op, sess |-> sess, lab_id |-> lab_id, code |-> code, body |-> body]
NoResponse == Response("", None, None, 0, <<>>)

\* GET /labs
list_labs(sess) ==
    LET user == current_user(users, sess) IN
    /\ resp' =
         IF IsNone(user) THEN Response("list_labs", sess, None, 401, <<>>)
         ELSE LET mine == SortAsc(SelectSeq(labs, LAMBDA row : row.user_id = Val(user)))
                  prof == ProfileFirst(profiles, Val(user))
                  tri == _current_trimester(prof, clock)
              IN IF tri.raised # ""
                 THEN Response("list_labs", sess, None, 500, <<>>)
                 ELSE Response("list_labs", sess, None, 200,
                               [i \in 1..Len(mine) |->
                                   Enriched(labs, ranges, Val(user), mine[i], tri.value[1])])
    /\ UNCHANGED <<calc_vars, db_vars, clock, io_vars>>

\* a GET /labs/<lab_id> that seeds the reference ranges when it finds none
get_lab_seeding(sess, lab_id) ==
    LET user == current_user(users, sess)
        lab == IF IsNone(user) THEN None ELSE LabFirst(labs, Val(user), lab_id)
    IN /\ resp' =
            IF IsNone(user) THEN Response("get_lab", sess, Some(lab_id), 401, <<>>)
            ELSE IF IsNone(lab) THEN Response("get_lab", sess, Some(lab_id), 404, <<>>)
            ELSE LET tri == _current_trimester(ProfileFirst(profiles, Val(user)), clock)
                 IN IF tri.raised # ""
                    THEN Response("get_lab", sess, Some(lab_id), 500, <<>>)
                    ELSE Response("get_lab", sess, Some(lab_id), 200,
                                  <<Enriched(labs, ranges, Val(user), Val(lab),
                                             tri.value[1])>>)
       /\ ranges' = IF ~IsNone(lab) /\ ranges = <<>> THEN SeedRows(ranges, 1) ELSE ranges
       /\ UNCHANGED <<calc_vars, users, labs, profiles, diary_vars, clock, io_vars>>

\* GET /labs/<lab_id>
get_lab(sess, lab_id) ==
    LET user == current_user(users, sess) IN
    /\ resp' =
         IF IsNone(user) THEN Response("get_lab", sess, Some(lab_id), 401, <<>>)
         ELSE LET lab == LabFirst(labs, Val(user), lab_id) IN
              IF IsNone(lab) THEN Response("get_lab", sess, Some(lab_id), 404, <<>>)
              ELSE LET prof == ProfileFirst(profiles, Val(user))
                       tri == _current_trimester(prof, clock)
                   IN IF tri.raised # ""
                      THEN Response("get_lab", sess, Some(lab_id), 500, <<>>)
                      ELSE Response("get_lab", sess, Some(lab_id), 200,
                                    <<Enriched(labs, ranges, Val(user), Val(lab),
                                               tri.value[1])>>)
    /\ UNCHANGED <<calc_vars, db_vars, clock, io_vars>>

\* LabIn.model_validate: test_name of at least one character, test_date
\* defaulting to date.today()
LabInValid(payload) == Len(payload.test_name) >= 1

\* a POST /labs that supersedes the user's stored result of the same name
\* with the new one, keeping one record per analyte
create_lab_superseding(sess, payload) ==
    LET user == current_user(users, sess) IN
    IF IsNone(user)
    THEN /\ resp' = Response("create_lab", sess, None, 401, <<>>)
         /\ UNCHANGED <<calc_vars, db_vars, clock, io_vars>>
    ELSE IF ~LabInValid(payload)
    THEN /\ resp' = Response("create_lab", sess, None, 400, <<>>)
         /\ UNCHANGED <<calc_vars, db_vars, clock, io_vars>>
    ELSE LET old == {i \in 1..Len(labs) : /\ labs[i].user_id = Val(user)
                                          /\ labs[i].test_name = payload.test_name}
             id == IF old = {} THEN Len(labs) + 1 ELSE CHOOSE i \in old : TRUE
             lab == [id |-> id, user_id |-> Val(user),
                     test_name |-> payload.test_name, result |-> payload.result,
                     units |-> payload.units,
                     test_date |-> IF IsNone(payload.test_date) THEN clock
                                   ELSE Val(payload.test_date)]
             rows == IF old = {} THEN Append(labs, lab) ELSE [labs EXCEPT ![id] = lab]
             prof == ProfileFirst(profiles, Val(user))
             tri == _current_trimester(prof, clock)
         IN /\ labs' = rows
            /\ resp' = IF tri.raised # ""
                       THEN Response("create_lab", sess, Some(lab.id), 500, <<>>)
                       ELSE Response("create_lab", sess, Some(lab.id), 201,
                                     <<Enriched(rows, ranges, Val(user), lab, tri.value[1])>>)
            /\ UNCHANGED <<calc_vars, users, profiles, ranges, diary_vars, clock, io_vars>>

\* POST /labs
create_lab(sess, payload) ==
    LET user == current_user(users, sess) IN
    IF IsNone(user)
    THEN /\ resp' = Response("create_lab", sess, None, 401, <<>>)
         /\ UNCHANGED <<calc_vars, db_vars, clock, io_vars>>
    ELSE IF ~LabInValid(payload)
    THEN /\ resp' = Response("create_lab", sess, None, 400, <<>>)
         /\ UNCHANGED <<calc_vars, db_vars, clock, io_vars>>
    ELSE LET lab == [id |-> Len(labs) + 1, user_id |-> Val(user),
                     test_name |-> payload.test_name, result |-> payload.result,
                     units |-> payload.units,
                     test_date |-> IF IsNone(payload.test_date) THEN clock
                                   ELSE Val(payload.test_date)]
             rows == Append(labs, lab)
             prof == ProfileFirst(profiles, Val(user))
             tri == _current_trimester(prof, clock)
         IN /\ labs' = rows
            /\ resp' = IF tri.raised # ""
                       THEN Response("create_lab", sess, Some(lab.id), 500, <<>>)
                       ELSE Response("create_lab", sess, Some(lab.id), 201,
                                     <<Enriched(rows, ranges, Val(user), lab, tri.value[1])>>)
            /\ UNCHANGED <<calc_vars, users, profiles, ranges, diary_vars, clock, io_vars>>

\* python seed_reference_ranges.py
seed ==
    /\ ranges' = SeedRows(ranges, 1)
    /\ resp' = NoResponse
    /\ UNCHANGED <<calc_vars, users, labs, profiles, diary_vars, clock, io_vars>>

(***************************************************************************)
(* api/profile.py.  A profile's id is its row's position in the table.  A  *)
(* date of a request body is the ordinal of the ISO text sent; the text    *)
(* "0000-01-01", of no date, is the ordinal 0.                             *)
(***************************************************************************)
\* a _calc_by_lmp whose first trimester ends with week 13
_calc_by_lmp_le13(lmp, today) ==
    LET days == today - lmp IN
    IF days < 0 THEN [weeks |-> None, tri |-> "-"]
    ELSE LET weeks == days \div 7 IN
         [weeks |-> Some(weeks),
          tri |-> IF weeks <= 13 THEN "T1" ELSE IF weeks <= 27 THEN "T2" ELSE "T3"]

\* _calc_by_lmp(lmp, today): the tuple (weeks, tri)
_calc_by_lmp(lmp, today) ==
    LET days == today - lmp IN
    IF days < 0 THEN [weeks |-> None, tri |-> "-"]
    ELSE LET weeks == days \div 7 IN
         [weeks |-> Some(weeks),
          tri |-> IF weeks <= 12 THEN "T1" ELSE IF weeks <= 27 THEN "T2" ELSE "T3"]

\* _calc_by_due(edd, today): the tuple, or the OverflowError of edd - 280 days
_calc_by_due(edd, today) ==
    LET lmp == DateMinusDays(edd, GestationDays) IN
    IF lmp.raised # "" THEN Raise(lmp.raised)
    ELSE Return(_calc_by_lmp(lmp.value[1], today))

ProfileOut(lmp_date, due_date, high_risk_notes, gestational_age_weeks, trimester) ==
    [lmp_date |-> lmp_date, due_date |-> due_date,
     high_risk_notes |-> high_risk_notes,
     gestational_age_weeks |-> gestational_age_weeks, trimester |-> trimester]

\* a serializer that asks the due date first
_to_out_due_first(profile, now) ==
    IF IsNone(profile) THEN Return(ProfileOut(None, None, <<>>, None, "-"))
    ELSE LET p == Val(profile)
             got == IF ~IsNone(p.due_date) THEN _calc_by_due(Val(p.due_date), now)
                    ELSE IF ~IsNone(p.lmp_date)
                         THEN Return(_calc_by_lmp(Val(p.lmp_date), now))
                    ELSE Return([weeks |-> None, tri |-> "-"])
         IN IF got.raised # "" THEN Raise(got.raised)
            ELSE Return(ProfileOut(p.lmp_date, p.due_date,
                                   IF IsNone(p.high_risk_notes) THEN <<>>
                                   ELSE Val(p.high_risk_notes),
                                   got.value[1].weeks, got.value[1].tri))

\* _to_out(profile) on the day `now`
_to_out(profile, now) ==
    IF IsNone(profile) THEN Return(ProfileOut(None, None, <<>>, None, "-"))
    ELSE LET p == Val(profile)
             got == IF ~IsNone(p.lmp_date)
                    THEN Return(_calc_by_lmp(Val(p.lmp_date), now))
                    ELSE IF ~IsNone(p.due_date) THEN _calc_by_due(Val(p.due_date), now)
                    ELSE Return([weeks |-> None, tri |-> "-"])
         IN IF got.raised # "" THEN Raise(got.raised)
            ELSE Return(ProfileOut(p.lmp_date, p.due_date,
                                   IF IsNone(p.high_risk_notes) THEN <<>>
                                   ELSE Val(p.high_risk_notes),
                                   got.value[1].weeks, got.value[1].tri))

\* GET /profile
get_profile(sess) ==
    LET user == current_user(users, sess) IN
    /\ resp' =
         IF IsNone(user) THEN Response("get_profile", sess, None, 401, <<>>)
         ELSE LET out == _to_out(ProfileFirst(profiles, Val(user)), clock) IN
              IF out.raised # "" THEN Response("get_profile", sess, None, 500, <<>>)
              ELSE Response("get_profile", sess, None, 200, out.value)
    /\ UNCHANGED <<calc_vars, db_vars, clock, io_vars>>

\* ProfileIn.model_validate: each date absent or the text of a date
ProfileInValid(payload) ==
    /\ IsNone(payload.lmp_date) \/ Val(payload.lmp_date) >= DateMinOrdinal
    /\ IsNone(payload.due_date) \/ Val(payload.due_date) >= DateMinOrdinal

\* data.get("high_risk_notes") or None
NotesOrNone(notes) == IF IsNone(notes) \/ Val(notes) = <<>> THEN None ELSE notes

\* the Profile object the handler holds after its query: the row as loaded
\* and its id, or nothing when the user has no row
ProfileLoaded(rows, user_id) ==
    LET hits == {i \in 1..Len(rows) : rows[i].user_id = user_id} IN
    IF hits = {} THEN None
    ELSE LET at == CHOOSE i \in hits : \A j \in hits : i <= j
         IN Some([at |-> at, row |-> rows[at]])

\* a commit that merges: a field absent from the body keeps the stored value
ProfileCommit_keeping(rows, unique, user_id, loaded, payload) ==
    LET notes == NotesOrNone(payload.high_risk_notes) IN
    IF IsNone(loaded)
    THEN IF unique /\ \E i \in 1..Len(rows) : rows[i].user_id = user_id
         THEN Raise("IntegrityError")
         ELSE Return([rows |-> Append(rows, [user_id |-> user_id,
                                             lmp_date |-> payload.lmp_date,
                                             due_date |-> payload.due_date,
                                             high_risk_notes |-> notes]),
                      at |-> Len(rows) + 1])
    ELSE LET at == Val(loaded).at
         IN Return([rows |-> [rows EXCEPT ![at] =
                        [user_id |-> @.user_id,
                         lmp_date |-> IF IsNone(payload.lmp_date)
                                      THEN @.lmp_date ELSE payload.lmp_date,
                         due_date |-> IF IsNone(payload.due_date)
                                      THEN @.due_date ELSE payload.due_date,
                         high_risk_notes |-> IF IsNone(notes)
                                             THEN @.high_risk_notes ELSE notes]],
                    at |-> at])

\* db.session.commit() of upsert_profile on the table as it is then: the
\* INSERT of the new object, which a unique user_id refuses when the user has
\* a row by then, or the UPDATE of the loaded row, which sets the columns
\* whose assigned value differs from the value loaded
ProfileCommit(rows, unique, user_id, loaded, payload) ==
    LET notes == NotesOrNone(payload.high_risk_notes) IN
    IF IsNone(loaded)
    THEN IF unique /\ \E i \in 1..Len(rows) : rows[i].user_id = user_id
         THEN Raise("IntegrityError")
         ELSE Return([rows |-> Append(rows, [user_id |-> user_id,
                                             lmp_date |-> payload.lmp_date,
                                             due_date |-> payload.due_date,
                                             high_risk_notes |-> notes]),
                      at |-> Len(rows) + 1])
    ELSE LET at == Val(loaded).at
             was == Val(loaded).row
         IN Return([rows |-> [rows EXCEPT ![at] =
                        [user_id |-> @.user_id,
                         lmp_date |-> IF payload.lmp_date # was.lmp_date
                                      THEN payload.lmp_date ELSE @.lmp_date,
                         due_date |-> IF payload.due_date # was.due_date
                                      THEN payload.due_date ELSE @.due_date,
                         high_risk_notes |-> IF notes # was.high_risk_notes
                                             THEN notes ELSE @.high_risk_notes]],
                    at |-> at])

\* the response of PUT /profile once its commit is done
PutResponse(sess, done, now) ==
    IF done.raised # "" THEN Response("upsert_profile", sess, None, 500, <<>>)
    ELSE LET out == _to_out(Some(done.value[1].rows[done.value[1].at]), now) IN
         IF out.raised # "" THEN Response("upsert_profile", sess, None, 500, <<>>)
         ELSE Response("upsert_profile", sess, None, 200, out.value)

\* PUT /profile
upsert_profile(sess, payload) ==
    LET user == current_user(users, sess) IN
    IF IsNone(user)
    THEN /\ resp' = Response("upsert_profile", sess, None, 401, <<>>)
         /\ UNCHANGED <<calc_vars, db_vars, clock, io_vars>>
    ELSE IF ~ProfileInValid(payload)
    THEN /\ resp' = Response("upsert_profile", sess, None, 400, <<>>)
         /\ UNCHANGED <<calc_vars, db_vars, clock, io_vars>>
    ELSE LET done == ProfileCommit(profiles, schema.profile_user_unique, Val(user),
                                   ProfileLoaded(profiles, Val(user)), payload)
         IN /\ profiles' = IF done.raised # "" THEN profiles ELSE done.value[1].rows
            /\ resp' = PutResponse(sess, done, clock)
            /\ UNCHANGED <<calc_vars, users, labs, ranges, diary_vars, clock, io_vars>>

(***************************************************************************)
(* The other readers of the profile: api/ai.py, api/symptoms.py and        *)
(* api/exports.py.  What the AI vendor answers is not modelled: a response *)
(* carries the week and the trimester the handler worked out, which the    *)
(* two prompt builders hand to the vendor.                                 *)
(***************************************************************************)
\* the weeks and the trimester as the three handlers work them out
ProfileContext(profile, now) ==
    IF IsNone(profile) THEN Return([weeks |-> None, trimester |-> "-"])
    ELSE IF ~IsNone(Val(profile).lmp_date)
         THEN LET r == calculate_by_lmp(Val(profile).lmp_date, Some(now)) IN
              Return([weeks |-> r.weeks, trimester |-> r.trimester])
    ELSE IF ~IsNone(Val(profile).due_date)
         THEN LET res == calculate_by_due(Val(profile).due_date, Some(now)) IN
              IF res.raised # "" THEN Raise(res.raised)
              ELSE Return([weeks |-> res.value[1].weeks,
                           trimester |-> res.value[1].trimester])
    ELSE Return([weeks |-> None, trimester |-> "-"])

\* a handler that reads the profile and reports the context it worked out
ContextResponse(op, sess) ==
    LET user == current_user(users, sess) IN
    IF IsNone(user) THEN Response(op, sess, None, 401, <<>>)
    ELSE LET ctx == ProfileContext(ProfileFirst(profiles, Val(user)), clock) IN
         IF ctx.raised # "" THEN Response(op, sess, None, 500, <<>>)
         ELSE Response(op, sess, None, 200, ctx.value)

\* GET /ai_messages
latest_msg(sess) ==
    /\ resp' = ContextResponse("latest_msg", sess)
    /\ UNCHANGED <<calc_vars, db_vars, clock, io_vars>>

\* POST /symptoms/ai_suggestion: a body without symptom or severity is refused
symptom_ai_suggestion(sess, complete) ==
    /\ resp' = IF ~IsNone(current_user(users, sess)) /\ ~complete
               THEN Response("symptom_ai_suggestion", sess, None, 400, <<>>)
               ELSE ContextResponse("symptom_ai_suggestion", sess)
    /\ UNCHANGED <<calc_vars, db_vars, clock, io_vars>>

\* GET /exports/summary
export_summary(sess) ==
    /\ resp' = ContextResponse("export_summary", sess)
    /\ UNCHANGED <<calc_vars, db_vars, clock, io_vars>>

(***************************************************************************)
(* api/auth.py.  The cookie is the browser's: login and logout rewrite it, *)
(* every other request carries it as it is.                                *)
(***************************************************************************)
\* User.query.filter(db.func.lower(User.nickname) == nickname.lower()).first()
UserByNickname(user_rows, nickname) ==
    LET hits == {i \in 1..Len(user_rows) : lower(user_rows[i]) = lower(nickname)} IN
    IF hits = {} THEN None ELSE Some(CHOOSE i \in hits : \A j \in hits : i <= j)

\* POST /login with the nickname of the body ("" when the body has none)
login(nickname) ==
    LET name == strip(nickname) IN
    IF name = <<>>
    THEN /\ resp' = Response("login", session, None, 400, <<>>)
         /\ UNCHANGED <<calc_vars, db_vars, clock, io_vars>>
    ELSE LET found == UserByNickname(users, name)
             user_id == IF IsNone(found) THEN Len(users) + 1 ELSE Val(found)
             rows == IF IsNone(found) THEN Append(users, name) ELSE users
         IN /\ users' = rows
            /\ session' = Some(user_id)
            /\ resp' = Response("login", session, None, 200,
                                <<[user_id |-> user_id, nickname |-> rows[user_id]]>>)
            /\ UNCHANGED <<calc_vars, labs, profiles, ranges, diary_vars, clock,
                           inflight, schema>>

\* POST /logout
logout ==
    /\ session' = None
    /\ resp' = Response("logout", session, None, 200, <<>>)
    /\ UNCHANGED <<calc_vars, db_vars, clock, inflight, schema>>

\* GET /me
me(sess) ==
    LET user == current_user(users, sess) IN
    /\ resp' = IF IsNone(user) THEN Response("me", sess, None, 401, <<>>)
               ELSE Response("me", sess, None, 200,
                             <<[user_id |-> Val(user), nickname |-> users[Val(user)]]>>)
    /\ UNCHANGED <<calc_vars, db_vars, clock, io_vars>>

\* an OPTIONS request to a guarded endpoint: _auth lets it through and the
\* framework answers it, no handler being routed for the method
preflight(sess) ==
    /\ resp' = Response("OPTIONS", sess, None, 200, <<>>)
    /\ UNCHANGED <<calc_vars, db_vars, clock, io_vars>>

(***************************************************************************)
(* api/symptoms.py, api/medications.py, api/ai.py, api/exports.py.  A      *)
(* datetime is kept as its day.  The rows of these four tables carry an id *)
(* of their own, the greatest id so far plus one.  The query filters of    *)
(* GET /symptoms and the days parameter of the summary are left absent.    *)
(***************************************************************************)
NextId(rows) ==
    IF rows = <<>> THEN 1
    ELSE 1 + (CHOOSE n \in {rows[i].id : i \in 1..Len(rows)} :
                 \A i \in 1..Len(rows) : rows[i].id <= n)

\* to_dict() of Symptom, Medication, GlutenScan and AIMessage: the columns
diary_to_dict(row) == row

Tsh == <<"T", "s", "h">>
ft4 == <<"f", "t", "4">>
Ft4 == <<"F", "t", "4">>

\* the last lab of a user among the names given, dated `day` or before
LastLab(lab_rows, user_id, names, day) ==
    FirstDesc(SelectSeq(lab_rows, LAMBDA row : /\ row.user_id = user_id
                                                /\ row.test_name \in names
                                                /\ row.test_date <= day))

\* the related_lab_event date and the related_gluten_event of a symptom
Related(sym, user_id) ==
    LET last_tsh == LastLab(labs, user_id, {TSH, tsh, Tsh}, sym.logged_at)
        last_ft4 == LastLab(labs, user_id, {FT4, ft4, Ft4}, sym.logged_at)
    IN [lab_date |->
            IF ~IsNone(last_tsh) /\ ~IsNone(last_ft4)
            THEN Some(IF Val(last_tsh).test_date >= Val(last_ft4).test_date
                      THEN Val(last_tsh).test_date ELSE Val(last_ft4).test_date)
            ELSE IF ~IsNone(last_tsh) THEN Some(Val(last_tsh).test_date)
            ELSE IF ~IsNone(last_ft4) THEN Some(Val(last_ft4).test_date)
            ELSE None,
        gluten |-> \E i \in 1..Len(scans) : /\ scans[i].user_id = user_id
                                            /\ scans[i].created_at = sym.logged_at]

\* the rows of a table that belong to a user
OwnRows(rows, user_id) == SelectSeq(rows, LAMBDA row : row.user_id = user_id)

\* the rows under ORDER BY logged_at DESC, id DESC
RECURSIVE SortLoggedDesc(_)
SortLoggedDesc(rows) ==
    IF rows = <<>> THEN <<>>
    ELSE LET top == CHOOSE i \in 1..Len(rows) : \A j \in 1..Len(rows) :
                        \/ rows[j].logged_at < rows[i].logged_at
                        \/ (rows[j].logged_at = rows[i].logged_at
                            /\ rows[j].id <= rows[i].id)
         IN <<rows[top]>>
            \o SortLoggedDesc(SubSeq(rows, 1, top - 1) \o SubSeq(rows, top + 1, Len(rows)))

\* GET /symptoms
list_symptoms(sess) ==
    LET user == current_user(users, sess) IN
    /\ resp' =
         IF IsNone(user) THEN Response("list_symptoms", sess, None, 401, <<>>)
         ELSE LET mine == SortLoggedDesc(OwnRows(symptoms, Val(user))) IN
              Response("list_symptoms", sess, None, 200,
                       [i \in 1..Len(mine) |->
                           [item |-> diary_to_dict(mine[i]),
                            related |-> Related(mine[i], Val(user))]])
    /\ UNCHANGED <<calc_vars, db_vars, clock, io_vars>>

\* SymptomIn.model_validate
SymptomInValid(payload) ==
    Len(payload.symptom) >= 1 /\ payload.severity >= 0 /\ payload.severity <= 10

\* POST /symptoms: logged_at, absent from the bodies sent, is utcnow()
create_symptom(sess, payload, utc) ==
    LET user == current_user(users, sess) IN
    IF IsNone(user)
    THEN /\ resp' = Response("create_symptom", sess, None, 401, <<>>)
         /\ UNCHANGED <<calc_vars, db_vars, clock, io_vars>>
    ELSE IF ~SymptomInValid(payload)
    THEN /\ resp' = Response("create_symptom", sess, None, 400, <<>>)
         /\ UNCHANGED <<calc_vars, db_vars, clock, io_vars>>
    ELSE LET sym == [id |-> NextId(symptoms), user_id |-> Val(user),
                     symptom |-> payload.symptom, severity |-> payload.severity,
                     note |-> None, logged_at |-> utc]
         IN /\ symptoms' = Append(symptoms, sym)
            /\ resp' = Response("create_symptom", sess, None, 201, <<diary_to_dict(sym)>>)
            /\ UNCHANGED <<calc_vars, users, labs, profiles, ranges,
                           medications, scans, messages, clock, io_vars>>

\* a DELETE /symptoms/<symptom_id> that no _auth precedes and that looks the
\* row up by its id alone
delete_symptom_unguarded(sess, symptom_id) ==
    IF ~\E i \in 1..Len(symptoms) : symptoms[i].id = symptom_id
    THEN /\ resp' = Response("delete_symptom", sess, None, 404, <<>>)
         /\ UNCHANGED <<calc_vars, db_vars, clock, io_vars>>
    ELSE /\ symptoms' = SelectSeq(symptoms, LAMBDA row : row.id # symptom_id)
         /\ resp' = Response("delete_symptom", sess, None, 200, <<>>)
         /\ UNCHANGED <<calc_vars, users, labs, profiles, ranges,
                        medications, scans, messages, clock, io_vars>>

\* DELETE /symptoms/<symptom_id>
delete_symptom(sess, symptom_id) ==
    LET user == current_user(users, sess) IN
    IF IsNone(user)
    THEN /\ resp' = Response("delete_symptom", sess, None, 401, <<>>)
         /\ UNCHANGED <<calc_vars, db_vars, clock, io_vars>>
    ELSE IF ~\E i \in 1..Len(symptoms) :
                 symptoms[i].id = symptom_id /\ symptoms[i].user_id = Val(user)
    THEN /\ resp' = Response("delete_symptom", sess, None, 404, <<>>)
         /\ UNCHANGED <<calc_vars, db_vars, clock, io_vars>>
    ELSE /\ symptoms' = SelectSeq(symptoms, LAMBDA row : row.id # symptom_id)
         /\ resp' = Response("delete_symptom", sess, None, 200, <<>>)
         /\ UNCHANGED <<calc_vars, users, labs, profiles, ranges,
                        medications, scans, messages, clock, io_vars>>

\* GET /medications
list_medications(sess) ==
    LET user == current_user(users, sess) IN
    /\ resp' =
         IF IsNone(user) THEN Response("list_medications", sess, None, 401, <<>>)
         ELSE LET mine == OwnRows(medications, Val(user)) IN
              Response("list_medications", sess, None, 200,
                       [i \in 1..Len(mine) |-> diary_to_dict(mine[i])])
    /\ UNCHANGED <<calc_vars, db_vars, clock, io_vars>>

\* MedicationIn.model_validate
MedicationInValid(payload) == Len(payload.medication_name) >= 1

\* POST /medications: taken_at, absent from the bodies sent, is utcnow()
create_medication(sess, payload, utc) ==
    LET user == current_user(users, sess) IN
    IF IsNone(user)
    THEN /\ resp' = Response("create_medication", sess, None, 401, <<>>)
         /\ UNCHANGED <<calc_vars, db_vars, clock, io_vars>>
    ELSE IF ~MedicationInValid(payload)
    THEN /\ resp' = Response("create_medication", sess, None, 400, <<>>)
         /\ UNCHANGED <<calc_vars, db_vars, clock, io_vars>>
    ELSE LET med == [id |-> NextId(medications), user_id |-> Val(user),
                     medication_name |-> payload.medication_name,
                     dose |-> None, time_of_day |-> None, taken_at |-> utc]
         IN /\ medications' = Append(medications, med)
            /\ resp' = Response("create_medication", sess, None, 201,
                                <<diary_to_dict(med)>>)
            /\ UNCHANGED <<calc_vars, users, labs, profiles, ranges,
                           symptoms, scans, messages, clock, io_vars>>

\* GET /gluten_scans
list_scans(sess) ==
    LET user == current_user(users, sess) IN
    /\ resp' =
         IF IsNone(user) THEN Response("list_scans", sess, None, 401, <<>>)
         ELSE LET mine == OwnRows(scans, Val(user)) IN
              Response("list_scans", sess, None, 200,
                       [i \in 1..Len(mine) |-> diary_to_dict(mine[i])])
    /\ UNCHANGED <<calc_vars, db_vars, clock, io_vars>>

\* POST /gluten_scans: the food name is what the vendor's analysis gives
create_scan(sess, has_image, food_name, utc) ==
    LET user == current_user(users, sess) IN
    IF IsNone(user)
    THEN /\ resp' = Response("create_scan", sess, None, 401, <<>>)
         /\ UNCHANGED <<calc_vars, db_vars, clock, io_vars>>
    ELSE IF ~has_image
    THEN /\ resp' = Response("create_scan", sess, None, 400, <<>>)
         /\ UNCHANGED <<calc_vars, db_vars, clock, io_vars>>
    ELSE LET scan == [id |-> NextId(scans), user_id |-> Val(user),
                      image_url |-> "<provided>", result_tag |-> food_name,
                      created_at |-> utc]
         IN /\ scans' = Append(scans, scan)
            /\ resp' = Response("create_scan", sess, None, 201, <<diary_to_dict(scan)>>)
            /\ UNCHANGED <<calc_vars, users, labs, profiles, ranges,
                           symptoms, medications, messages, clock, io_vars>>

\* POST /food_chat
food_chat(sess, has_message) ==
    /\ resp' = IF IsNone(current_user(users, sess))
               THEN Response("food_chat", sess, None, 401, <<>>)
               ELSE IF ~has_message THEN Response("food_chat", sess, None, 400, <<>>)
               ELSE Response("food_chat", sess, None, 200, <<>>)
    /\ UNCHANGED <<calc_vars, db_vars, clock, io_vars>>

\* GET /ai_messages/encouragement: the text is the vendor's or a canned one
get_encouragement_message(sess, text, utc) ==
    LET user == current_user(users, sess) IN
    IF IsNone(user)
    THEN /\ resp' = Response("get_encouragement_message", sess, None, 401, <<>>)
         /\ UNCHANGED <<calc_vars, db_vars, clock, io_vars>>
    ELSE LET msg == [id |-> NextId(messages), user_id |-> Val(user),
                     message |-> text, created_at |-> utc]
         IN /\ messages' = Append(messages, msg)
            /\ resp' = Response("get_encouragement_message", sess, None, 200,
                                <<diary_to_dict(msg)>>)
            /\ UNCHANGED <<calc_vars, users, labs, profiles, ranges,
                           symptoms, medications, scans, clock, io_vars>>

\* str(value) of the floats that seed_correlation_demo stores
T14 == <<"1", ".", "4">>
T11 == <<"1", ".", "1">>
T18 == <<"1", ".", "8">>
T33 == <<"3", ".", "3">>
T12 == <<"1", ".", "2">>
T10 == <<"1", ".", "0">>
T09 == <<"0", ".", "9">>
T16 == <<"1", ".", "6">>
T22 == <<"2", ".", "2">>
T28 == <<"2", ".", "8">>
T13 == <<"1", ".", "3">>
T115 == <<"1", ".", "1", "5">>
T085 == <<"0", ".", "8", "5">>
T280 == <<"2", "8", ".", "0">>
T32 == <<"3", ".", "2">>
TPOAb == <<"T", "P", "O", "A", "b">>

DemoLab(days_ago, name, value, unit) ==
    [days_ago |-> days_ago, name |-> name, value |-> value, unit |-> unit]

\* the add_lab calls of a variant, in order
DemoLabs(variant) ==
    IF variant = "rich"
    THEN << DemoLab(21, TSH, T12, "mIU/L"), DemoLab(17, TSH, T10, "mIU/L"),
            DemoLab(14, TSH, T09, "mIU/L"), DemoLab(10, TSH, T11, "mIU/L"),
            DemoLab(7, TSH, T16, "mIU/L"), DemoLab(5, TSH, T22, "mIU/L"),
            DemoLab(3, TSH, T28, "mIU/L"), DemoLab(0, TSH, T33, "mIU/L"),
            DemoLab(21, FT4, T13, "ng/dL"), DemoLab(14, FT4, T12, "ng/dL"),
            DemoLab(10, FT4, T115, "ng/dL"), DemoLab(7, FT4, T11, "ng/dL"),
            DemoLab(5, FT4, T10, "ng/dL"), DemoLab(3, FT4, T09, "ng/dL"),
            DemoLab(0, FT4, T085, "ng/dL"),
            DemoLab(21, TPOAb, T280, "IU/mL"), DemoLab(10, TPOAb, T280, "IU/mL"),
            DemoLab(0, TPOAb, T280, "IU/mL"),
            DemoLab(21, FT3, T32, "pg/mL"), DemoLab(7, FT3, T32, "pg/mL"),
            DemoLab(0, FT3, T32, "pg/mL") >>
    ELSE << DemoLab(7, TSH, T14, "mIU/L"), DemoLab(5, TSH, T11, "mIU/L"),
            DemoLab(2, TSH, T18, "mIU/L"), DemoLab(0, TSH, T33, "mIU/L") >>

DemoSym(days_ago, name, sev) == [days_ago |-> days_ago, name |-> name, sev |-> sev]

\* the add_sym calls of a variant, in order
DemoSyms(variant) ==
    IF variant = "rich"
    THEN << DemoSym(8, "fatigue", 2), DemoSym(7, "fatigue", 3),
            DemoSym(7, "bloating", 3), DemoSym(2, "fatigue", 4),
            DemoSym(2, "bloating", 3), DemoSym(0, "fatigue", 5),
            DemoSym(0, "palpitations", 3) >>
    ELSE << DemoSym(2, "fatigue", 3), DemoSym(2, "bloating", 2),
            DemoSym(1, "fatigue", 4), DemoSym(1, "bloating", 3),
            DemoSym(0, "fatigue", 5), DemoSym(0, "palpitations", 3) >>

\* the add_gluten calls of a variant, in order
DemoGluten(variant) == IF variant = "rich" THEN <<7, 2>> ELSE <<2>>

\* add_lab, call k onwards: a lab is added unless the user has one of the
\* name, the date and the result text
RECURSIVE AddDemoLabs(_, _, _, _, _)
AddDemoLabs(rows, user_id, calls, k, utc) ==
    IF k > Len(calls) THEN rows
    ELSE LET c == calls[k]
             exists == \E i \in 1..Len(rows) :
                           /\ rows[i].user_id = user_id
                           /\ rows[i].test_name = c.name
                           /\ rows[i].test_date = utc - c.days_ago
                           /\ rows[i].result = c.value
         IN AddDemoLabs(IF exists THEN rows
                        ELSE Append(rows, [id |-> Len(rows) + 1, user_id |-> user_id,
                                           test_name |-> c.name, result |-> c.value,
                                           units |-> Some(c.unit),
                                           test_date |-> utc - c.days_ago]),
                        user_id, calls, k + 1, utc)

\* add_sym, call k onwards
RECURSIVE AddDemoSyms(_, _, _, _, _)
AddDemoSyms(rows, user_id, calls, k, utc) ==
    IF k > Len(calls) THEN rows
    ELSE AddDemoSyms(Append(rows, [id |-> NextId(rows), user_id |-> user_id,
                                   symptom |-> calls[k].name,
                                   severity |-> calls[k].sev, note |-> None,
                                   logged_at |-> utc - calls[k].days_ago]),
                     user_id, calls, k + 1, utc)

\* add_gluten, call k onwards: a scan is added unless the user has one of the day
RECURSIVE AddDemoGluten(_, _, _, _, _)
AddDemoGluten(rows, user_id, calls, k, utc) ==
    IF k > Len(calls) THEN rows
    ELSE LET exists == \E i \in 1..Len(rows) : /\ rows[i].user_id = user_id
                                               /\ rows[i].created_at = utc - calls[k]
         IN AddDemoGluten(IF exists THEN rows
                          ELSE Append(rows, [id |-> NextId(rows), user_id |-> user_id,
                                             image_url |-> "<seed>",
                                             result_tag |-> "gluten_likely",
                                             created_at |-> utc - calls[k]]),
                          user_id, calls, k + 1, utc)

\* POST /exports/seed_correlation_demo?variant=...
seed_correlation_demo(sess, variant, utc) ==
    LET user == current_user(users, sess) IN
    IF IsNone(user)
    THEN /\ resp' = Response("seed_correlation_demo", sess, None, 401, <<>>)
         /\ UNCHANGED <<calc_vars, db_vars, clock, io_vars>>
    ELSE /\ labs' = AddDemoLabs(labs, Val(user), DemoLabs(variant), 1, utc)
         /\ symptoms' = AddDemoSyms(symptoms, Val(user), DemoSyms(variant), 1, utc)
         /\ scans' = AddDemoGluten(scans, Val(user), DemoGluten(variant), 1, utc)
         /\ resp' = Response("seed_correlation_demo", sess, None, 200,
                             <<[labs_seeded |-> Len(labs') - Len(labs),
                                symptoms_seeded |-> Len(symptoms') - Len(symptoms),
                                gluten_seeded |-> Len(scans') - Len(scans)]>>)
         /\ UNCHANGED <<calc_vars, users, profiles, ranges, medications, messages,
                        clock, io_vars>>

\* the calculator before any call on its arguments
NotCalled == [fn |-> "", out |-> Return(NullResult)]

(***************************************************************************)
(* The requests and the stored data the specifications draw from.          *)
(***************************************************************************)
ANN == <<"a", "n", "n">>
BEA == <<"b", "e", "a">>

\* the cookies a request can carry: no session, or the session of a user
Sessions == {None, Some(1), Some(2)}

MaxLabs == 3
MaxDeltaLabs == 2

LabRow(id, user_id, test_name, result, test_date) ==
    [id |-> id, user_id |-> user_id, test_name |-> test_name, result |-> result,
     units |-> None, test_date |-> test_date]
ProfileRow(user_id, lmp_date, due_date) ==
    [user_id |-> user_id, lmp_date |-> lmp_date, due_date |-> due_date,
     high_risk_notes |-> None]

Payload(test_name, result, test_date) ==
    [test_name |-> test_name, result |-> result, units |-> None,
     test_date |-> test_date]

\* the bodies of POST /labs: a result of yesterday and one with no test_date
\* (so of today) under each spelling of the name, and a body with no name
ApiPayloads ==
    {Payload(TSH, <<"2", ".", "0">>, Some(StartDay - 1)),
     Payload(TSH, <<"3", ".", "0">>, None),
     Payload(tsh, <<"2", ".", "0">>, Some(StartDay - 1)),
     Payload(tsh, <<"3", ".", "0">>, None),
     Payload(<<>>, <<"2", ".", "0">>, None)}

\* the tables of symptoms.py, medications.py and ai.py are empty, the browser
\* holds no cookie and no handler is running; whether Profile.user_id is
\* declared unique matters to handlers that run at once only
NoDiary ==
    /\ symptoms = <<>> /\ medications = <<>> /\ scans = <<>> /\ messages = <<>>
    /\ session = None /\ inflight = <<>>
    /\ schema = [profile_user_unique |-> FALSE]

\* the server takes the next request when the last response has been sent
Idle == resp = NoResponse

\* the response leaves the server
Deliver ==
    /\ resp # NoResponse
    /\ resp' = NoResponse
    /\ UNCHANGED <<calc_vars, db_vars, clock, io_vars>>

(***************************************************************************)
(* The labs API on a database with two users, no profile and no reference  *)
(* range.                                                                  *)
(***************************************************************************)
Init ==
    /\ arg_date = None /\ arg_today = None /\ calc = NotCalled
    /\ users = <<ANN, BEA>>
    /\ labs = <<>>
    /\ profiles = <<>>
    /\ ranges = <<>>
    /\ clock = StartDay
    /\ resp = NoResponse
    /\ NoDiary

PostLab ==
    \E sess \in Sessions, payload \in ApiPayloads :
        /\ Idle
        /\ Len(labs) < MaxLabs
        /\ create_lab(sess, payload)

GetLabs == \E sess \in Sessions : Idle /\ list_labs(sess)

GetLab == \E sess \in Sessions, lab_id \in 1..MaxLabs : Idle /\ get_lab(sess, lab_id)

Next == PostLab \/ GetLabs \/ GetLab \/ Deliver

Spec == Init /\ [][Next]_vars

(***************************************************************************)
(* The status evaluator: one stored lab of user 1, whose name, result and  *)
(* profile are drawn at the start, read back before and after the          *)
(* reference ranges are seeded.                                            *)
(***************************************************************************)
StatusTexts ==
    {<<"0", ".", "1">>, <<"0", ".", "1", "9">>, <<"0", ".", "2">>,
     <<"0", ".", "3">>, <<"0", ".", "7">>, <<"1", ".", "6">>,
     <<"2", ".", "5">>, <<"3", ".", "0">>, <<"3", ".", "1">>,
     <<"a", "b", "c">>, <<>>, <<"n", "a", "n">>, <<"i", "n", "f">>,
     <<"-", "i", "n", "f">>, <<" ", "3", ".", "0", " ">>}

StatusNames == {TSH, tsh, FT4, FT3}

\* LMPs 7, 13 and 28 weeks back and one in the future; due dates 27 weeks
\* ahead and at date.min
StatusProfiles ==
    {<<>>} \cup
    {<<ProfileRow(1, lmp, due)>> :
        lmp \in {None, Some(StartDay - 50), Some(StartDay - 91),
                 Some(StartDay - 196), Some(StartDay + 1)},
        due \in {None, Some(StartDay + 189), Some(DateMinOrdinal)}}

InitStatus ==
    /\ arg_date = None /\ arg_today = None /\ calc = NotCalled
    /\ users = <<ANN, BEA>>
    /\ \E name \in StatusNames, text \in StatusTexts :
           labs = <<LabRow(1, 1, name, text, StartDay)>>
    /\ profiles \in StatusProfiles
    /\ ranges = <<>>
    /\ clock = StartDay
    /\ resp = NoResponse
    /\ NoDiary

RunSeed == Idle /\ seed

NextStatus == RunSeed \/ GetLabs \/ GetLab \/ Deliver

SpecStatus == InitStatus /\ [][NextStatus]_vars

(***************************************************************************)
(* The delta evaluator: the stored labs of user 1 are drawn at the start   *)
(* and read back.                                                          *)
(***************************************************************************)
DeltaTexts ==
    {<<"2", ".", "0">>, <<"3", ".", "0">>, <<"0">>,
     <<"-", "2", ".", "0">>, <<"2", ".", "0", "0", "0", "1">>,
     <<"a", "b", "c">>, <<"n", "a", "n">>, <<"i", "n", "f">>}

DeltaFields ==
    [test_name : {TSH, tsh}, result : DeltaTexts,
     test_date : {StartDay - 1, StartDay}]

InitDelta ==
    /\ arg_date = None /\ arg_today = None /\ calc = NotCalled
    /\ users = <<ANN, BEA>>
    /\ \E n \in 0..MaxDeltaLabs : \E f \in [1..n -> DeltaFields] :
           labs = [i \in 1..n |->
                      LabRow(i, 1, f[i].test_name, f[i].result, f[i].test_date)]
    /\ profiles = <<>>
    /\ ranges = <<>>
    /\ clock = StartDay
    /\ resp = NoResponse
    /\ NoDiary

GetDeltaLab == \E lab_id \in 1..MaxDeltaLabs : Idle /\ get_lab(Some(1), lab_id)

NextDelta == GetLabs \/ GetDeltaLab \/ Deliver

SpecDelta == InitDelta /\ [][NextDelta]_vars

(***************************************************************************)
(* The calculator alone: the arguments are drawn at the start and each of  *)
(* the two functions is applied to them.                                   *)
(***************************************************************************)
InitCalc ==
    /\ arg_date \in {None} \cup {Some(d) : d \in ArgDates}
    /\ arg_today \in {None} \cup {Some(d) : d \in Days}
    /\ calc = NotCalled
    /\ users = <<>> /\ labs = <<>> /\ profiles = <<>> /\ ranges = <<>>
    /\ clock = StartDay /\ resp = NoResponse
    /\ NoDiary

CallCalculateByLmp ==
    /\ calc.fn = ""
    /\ calc' = [fn |-> "calculate_by_lmp",
                out |-> Return(calculate_by_lmp(arg_date, arg_today))]
    /\ UNCHANGED <<arg_date, arg_today, db_vars, clock, resp, io_vars>>

CallCalculateByDue ==
    /\ calc.fn = ""
    /\ calc' = [fn |-> "calculate_by_due",
                out |-> calculate_by_due(arg_date, arg_today)]
    /\ UNCHANGED <<arg_date, arg_today, db_vars, clock, resp, io_vars>>

NextCalc == CallCalculateByLmp \/ CallCalculateByDue

SpecCalc == InitCalc /\ [][NextCalc]_vars

(***************************************************************************)
(* The profile API and the readers of the profile: two users, each with    *)
(* one stored lab, write their profiles and read them back through every   *)
(* endpoint that reports a week or a trimester.                            *)
(***************************************************************************)
\* LMPs 7 and 28 weeks back and one in the future; due dates 27 weeks ahead
\* and at date.min; with and without notes; and a body whose lmp_date is the
\* text of no date
ProfilePayloads ==
    {[lmp_date |-> lmp, due_date |-> due, high_risk_notes |-> notes] :
        lmp \in {None, Some(StartDay - 50), Some(StartDay - 196), Some(StartDay + 1)},
        due \in {None, Some(StartDay + 189), Some(DateMinOrdinal)},
        notes \in {None, Some(<<"x">>)}}
    \cup {[lmp_date |-> Some(0), due_date |-> None, high_risk_notes |-> Some(<<>>)]}

InitProfile ==
    /\ arg_date = None /\ arg_today = None /\ calc = NotCalled
    /\ users = <<ANN, BEA>>
    /\ labs = <<LabRow(1, 1, TSH, <<"2", ".", "0">>, StartDay),
                LabRow(2, 2, tsh, <<"3", ".", "0">>, StartDay)>>
    /\ profiles = <<>>
    /\ ranges = <<>>
    /\ clock = StartDay
    /\ resp = NoResponse
    /\ NoDiary

PutProfile ==
    \E sess \in Sessions, payload \in ProfilePayloads :
        Idle /\ upsert_profile(sess, payload)

GetProfile == \E sess \in Sessions : Idle /\ get_profile(sess)

GetLatestMsg == \E sess \in Sessions : Idle /\ latest_msg(sess)

PostSuggestion ==
    \E sess \in Sessions, complete \in BOOLEAN :
        Idle /\ symptom_ai_suggestion(sess, complete)

GetSummary == \E sess \in Sessions : Idle /\ export_summary(sess)

NextProfile ==
    \/ PutProfile \/ GetProfile \/ GetLabs \/ GetLab
    \/ GetLatestMsg \/ PostSuggestion \/ GetSummary \/ Deliver

SpecProfile == InitProfile /\ [][NextProfile]_vars

(***************************************************************************)
(* The whole API behind one browser: it logs in and out and sends every    *)
(* request with the cookie it holds then.  The database starts with one   *)
(* user and no other row; the browser may hold the cookie of an earlier    *)
(* database, signed by the same key, whose user 2 is no user yet.          *)
(***************************************************************************)
\* the rows the tables of labs, profiles and the diary may hold, all told,
\* before a request that writes is sent
MaxRows == 2

TotalRows ==
    Len(labs) + Len(profiles) + Len(symptoms) + Len(medications)
    + Len(scans) + Len(messages)
Room == TotalRows < MaxRows

\* another spelling of the first user's nickname, a new nickname and a body
\* with none
Nicknames == {<<"A", "n", "n", " ">>, BEA, <<>>}

\* utcnow().date(): the server's time zone is UTC, so the day of date.today()
UtcDays == {clock}

InitApi ==
    /\ arg_date = None /\ arg_today = None /\ calc = NotCalled
    /\ users = <<ANN>> /\ labs = <<>> /\ profiles = <<>> /\ ranges = <<>>
    /\ symptoms = <<>> /\ medications = <<>> /\ scans = <<>> /\ messages = <<>>
    /\ clock = StartDay
    /\ resp = NoResponse
    /\ session \in {None, Some(2)}
    /\ inflight = <<>>
    /\ schema = [profile_user_unique |-> FALSE]

ReqLogin == \E nickname \in Nicknames : Idle /\ login(nickname)
ReqLogout == Idle /\ logout
ReqMe == Idle /\ me(session)
ReqPreflight == Idle /\ preflight(session)

ReqCreateLab ==
    \E payload \in {Payload(TSH, <<"2", ".", "0">>, Some(StartDay - 1)),
                    Payload(TSH, <<"3", ".", "0">>, None),
                    Payload(<<>>, <<"2", ".", "0">>, None)} :
        Idle /\ Room /\ create_lab(session, payload)
ReqListLabs == Idle /\ list_labs(session)
ReqGetLab == \E lab_id \in 1..MaxRows : Idle /\ get_lab(session, lab_id)

ReqUpsertProfile ==
    \E payload \in {[lmp_date |-> Some(StartDay - 50), due_date |-> Some(StartDay + 189),
                     high_risk_notes |-> None],
                    [lmp_date |-> Some(0), due_date |-> None,
                     high_risk_notes |-> None]} :
        Idle /\ Room /\ upsert_profile(session, payload)
ReqGetProfile == Idle /\ get_profile(session)

ReqCreateSymptom ==
    \E payload \in {[symptom |-> "fatigue", severity |-> 3],
                    [symptom |-> "fatigue", severity |-> 11]}, utc \in UtcDays :
        Idle /\ Room /\ create_symptom(session, payload, utc)
ReqListSymptoms == Idle /\ list_symptoms(session)
ReqDeleteSymptom == \E symptom_id \in 1..MaxRows : Idle /\ delete_symptom(session, symptom_id)
ReqSuggestion == \E complete \in BOOLEAN : Idle /\ symptom_ai_suggestion(session, complete)

ReqCreateMedication ==
    \E payload \in {[medication_name |-> "levothyroxine"], [medication_name |-> ""]},
       utc \in UtcDays :
        Idle /\ Room /\ create_medication(session, payload, utc)
ReqListMedications == Idle /\ list_medications(session)

ReqCreateScan ==
    \E has_image \in BOOLEAN, food_name \in {"Unknown", "Bread"}, utc \in UtcDays :
        Idle /\ Room /\ create_scan(session, has_image, food_name, utc)
ReqListScans == Idle /\ list_scans(session)
ReqFoodChat == \E has_message \in BOOLEAN : Idle /\ food_chat(session, has_message)
ReqEncouragement ==
    \E utc \in UtcDays :
        Idle /\ Room
        /\ get_encouragement_message(session, "You're doing great! Keep up the hard work.", utc)
ReqLatestMsg == Idle /\ latest_msg(session)

ReqSummary == Idle /\ export_summary(session)
ReqSeedDemo ==
    \E variant \in {"basic", "rich"}, utc \in UtcDays :
        Idle /\ Room /\ seed_correlation_demo(session, variant, utc)

NextApi ==
    \/ ReqLogin \/ ReqLogout \/ ReqMe \/ ReqPreflight
    \/ ReqCreateLab \/ ReqListLabs \/ ReqGetLab
    \/ ReqUpsertProfile \/ ReqGetProfile
    \/ ReqCreateSymptom \/ ReqListSymptoms \/ ReqDeleteSymptom \/ ReqSuggestion
    \/ ReqCreateMedication \/ ReqListMedications
    \/ ReqCreateScan \/ ReqListScans \/ ReqFoodChat \/ ReqEncouragement \/ ReqLatestMsg
    \/ ReqSummary \/ ReqSeedDemo
    \/ Deliver

SpecApi == InitApi /\ [][NextApi]_vars

(***************************************************************************)
(* PUT /profile by handlers that run at once (the server is threaded):     *)
(* every handler is user 1's.  A handler does its query, then its commit,  *)
(* then the reload of its row for the response; the steps of different     *)
(* handlers interleave.  Whether models.py declares Profile.user_id unique *)
(* is not known, so either is possible.  inflight.last is the body of the  *)
(* PUT whose commit came last.                                             *)
(***************************************************************************)
MaxHandlers == 2
Handlers == 1..MaxHandlers

NotRunning == [pc |-> "idle", payload |-> None, loaded |-> None, at |-> 0]

\* two LMPs with and without a due date, and a body whose lmp_date is no date
PutPayloads ==
    {[lmp_date |-> lmp, due_date |-> due, high_risk_notes |-> None] :
        lmp \in {Some(0), Some(StartDay - 50), Some(StartDay - 196)},
        due \in {None, Some(StartDay + 189)}}

InitPut ==
    /\ arg_date = None /\ arg_today = None /\ calc = NotCalled
    /\ users = <<ANN, BEA>> /\ labs = <<>> /\ profiles = <<>> /\ ranges = <<>>
    /\ symptoms = <<>> /\ medications = <<>> /\ scans = <<>> /\ messages = <<>>
    /\ clock = StartDay
    /\ resp = NoResponse
    /\ session = Some(1)
    /\ inflight = [run |-> [h \in Handlers |-> NotRunning], last |-> None]
    /\ schema \in {[profile_user_unique |-> unique] : unique \in BOOLEAN}

\* upsert_profile up to its query: _auth, the validation and
\* Profile.query.filter_by(user_id=_u().id).first()
PutQueryOf(h, payloads) ==
    \E payload \in payloads :
        /\ inflight.run[h].pc = "idle"
        /\ IF IsNone(current_user(users, session)) \/ ~ProfileInValid(payload)
           THEN /\ Idle
                /\ resp' = Response("upsert_profile", session, None,
                                    IF IsNone(current_user(users, session))
                                    THEN 401 ELSE 400, <<>>)
                /\ UNCHANGED inflight
           ELSE /\ inflight' = [inflight EXCEPT !.run[h] =
                                   [pc |-> "queried", payload |-> Some(payload),
                                    loaded |-> ProfileLoaded(profiles, Val(session)),
                                    at |-> 0]]
                /\ UNCHANGED resp
        /\ UNCHANGED <<calc_vars, db_vars, clock, session, schema>>

PutQuery(h) == PutQueryOf(h, PutPayloads)

\* upsert_profile from "if not prof" to db.session.commit()
PutCommit(h) ==
    LET me_ == inflight.run[h]
        done == ProfileCommit(profiles, schema.profile_user_unique, Val(session),
                              me_.loaded, Val(me_.payload))
    IN /\ me_.pc = "queried"
       /\ IF done.raised # ""
          THEN /\ Idle
               /\ resp' = PutResponse(session, done, clock)
               /\ inflight' = [inflight EXCEPT !.run[h] = NotRunning]
               /\ UNCHANGED profiles
          ELSE /\ profiles' = done.value[1].rows
               /\ inflight' = [inflight EXCEPT !.run[h].pc = "committed",
                                               !.run[h].at = done.value[1].at,
                                               !.last = me_.payload]
               /\ UNCHANGED resp
       /\ UNCHANGED <<calc_vars, users, labs, ranges, diary_vars, clock, session, schema>>

\* return jsonify(_to_out(prof)): the row, expired by the commit, is read again
PutRespond(h) ==
    /\ inflight.run[h].pc = "committed"
    /\ Idle
    /\ resp' = PutResponse(session,
                           Return([rows |-> profiles, at |-> inflight.run[h].at]), clock)
    /\ inflight' = [inflight EXCEPT !.run[h] = NotRunning]
    /\ UNCHANGED <<calc_vars, db_vars, clock, session, schema>>

PutStep == \E h \in Handlers : PutQuery(h) \/ PutCommit(h) \/ PutRespond(h)

ReadProfile == Idle /\ get_profile(session)

NextPut == PutStep \/ ReadProfile \/ Deliver

SpecPut == InitPut /\ [][NextPut]_vars

(***************************************************************************)
(* POST /labs served by several threads at once: create_lab commits its    *)
(* row (labs.py:56) and evaluates it afterwards (labs.py:57-70), and the   *)
(* rows of other handlers can be committed in between.                     *)
(***************************************************************************)
D2 == <<"2", ".", "0">>
D3 == <<"3", ".", "0">>
D4 == <<"4", ".", "0">>

\* bodies of POST /labs of one analyte: a result of today (no test_date), one
\* of yesterday and one of the day before, and a body with no name
PostPayloads ==
    {Payload(TSH, D3, None),
     Payload(TSH, D2, Some(StartDay - 1)),
     Payload(TSH, D4, Some(StartDay - 2)),
     Payload(<<>>, D2, None)}

InitPost ==
    /\ arg_date = None /\ arg_today = None /\ calc = NotCalled
    /\ users = <<ANN, BEA>>
    /\ labs = <<>>
    /\ profiles = <<>>
    /\ ranges = <<>>
    /\ clock = StartDay
    /\ symptoms = <<>> /\ medications = <<>> /\ scans = <<>> /\ messages = <<>>
    /\ resp = NoResponse
    /\ session = Some(1)
    /\ inflight = [run |-> [h \in Handlers |-> NotRunning], last |-> None]
    /\ schema = [profile_user_unique |-> FALSE]

\* create_lab up to db.session.commit(): _auth, the validation and the
\* INSERT, which gives the row the next id of the table
PostInsert(h) ==
    \E payload \in PostPayloads :
        LET user == current_user(users, session) IN
        /\ inflight.run[h].pc = "idle"
        /\ IF IsNone(user) \/ ~LabInValid(payload)
           THEN /\ Idle
                /\ resp' = Response("create_lab", session, None,
                                    IF IsNone(user) THEN 401 ELSE 400, <<>>)
                /\ UNCHANGED <<labs, inflight>>
           ELSE /\ Len(labs) < MaxLabs
                /\ labs' = Append(labs,
                              [id |-> Len(labs) + 1, user_id |-> Val(user),
                               test_name |-> payload.test_name,
                               result |-> payload.result, units |-> payload.units,
                               test_date |-> IF IsNone(payload.test_date) THEN clock
                                             ELSE Val(payload.test_date)])
                /\ inflight' = [inflight EXCEPT !.run[h] =
                                   [pc |-> "committed", payload |-> Some(payload),
                                    loaded |-> None, at |-> Len(labs) + 1],
                                                !.last = Some(payload)]
                /\ UNCHANGED resp
        /\ UNCHANGED <<calc_vars, users, profiles, ranges, diary_vars, clock, session, schema>>

\* create_lab after the commit: the profile, the trimester and the fields of
\* the new row are read from the tables as they are by now
PostEvaluate(h) ==
    LET user == current_user(users, session)
        lab == labs[inflight.run[h].at]
        tri == _current_trimester(ProfileFirst(profiles, Val(user)), clock)
    IN /\ inflight.run[h].pc = "committed"
       /\ Idle
       /\ resp' = IF tri.raised # ""
                  THEN Response("create_lab", session, Some(lab.id), 500, <<>>)
                  ELSE Response("create_lab", session, Some(lab.id), 201,
                                <<Enriched(labs, ranges, Val(user), lab, tri.value[1])>>)
       /\ inflight' = [inflight EXCEPT !.run[h] = NotRunning]
       /\ UNCHANGED <<calc_vars, db_vars, clock, session, schema>>

PostStep == \E h \in Handlers : PostInsert(h) \/ PostEvaluate(h)

ReadLabs == Idle /\ list_labs(session)

NextPost == PostStep \/ ReadLabs \/ Deliver

SpecPost == InitPost /\ [][NextPost]_vars

(***************************************************************************)
(* The fields of the lab objects: the profile of user 1 and the reference  *)
(* ranges are drawn at the start, results are posted under several         *)
(* spellings of an analyte and read back.                                  *)
(***************************************************************************)
MaxFieldLabs == 2

D01 == <<"0", ".", "1">>
D31 == <<"3", ".", "1">>
Abc == <<"a", "b", "c">>

\* bodies of POST /labs: a low, a high and a qualitative result under three
\* spellings of TSH, and a result of an analyte that has no range
FieldPayloads ==
    {Payload(name, text, None) : name \in {TSH, tsh, Tsh}, text \in {D01, D31, Abc}}
        \cup {Payload(FT3, D3, None)}

InitFields ==
    /\ arg_date = None /\ arg_today = None /\ calc = NotCalled
    /\ users = <<ANN, BEA>>
    /\ labs = <<>>
    /\ profiles \in StatusProfiles
    /\ ranges \in {<<>>, SeedRows(<<>>, 1)}
    /\ clock = StartDay
    /\ resp = NoResponse
    /\ NoDiary

PostField ==
    \E payload \in FieldPayloads :
        /\ Idle
        /\ Len(labs) < MaxFieldLabs
        /\ create_lab(Some(1), payload)

GetFieldLabs == Idle /\ list_labs(Some(1))

GetFieldLab == \E lab_id \in 1..MaxFieldLabs : Idle /\ get_lab(Some(1), lab_id)

NextFields == PostField \/ GetFieldLabs \/ GetFieldLab \/ RunSeed \/ Deliver

SpecFields == InitFields /\ [][NextFields]_vars

(***************************************************************************)
(* The two calculators side by side: a date and a today are drawn at the   *)
(* start, the functions of profile.py are applied to them, and user 1,     *)
(* whose profile holds the date as LMP or as due date, reads /profile and  *)
(* /labs on that day.                                                      *)
(***************************************************************************)
\* the first day, a day in the middle and the last day of the calendar kept
AgreeTodays == {DateMinOrdinal, MaxDay \div 2, MaxDay}

InitAgree ==
    /\ arg_date \in {Some(d) : d \in ArgDates}
    /\ arg_today \in {Some(d) : d \in AgreeTodays}
    /\ calc = NotCalled
    /\ users = <<ANN, BEA>>
    /\ labs = <<LabRow(1, 1, TSH, <<"2", ".", "0">>, DateMinOrdinal)>>
    /\ profiles \in {<<>>,
                     <<ProfileRow(1, None, None)>>,
                     <<ProfileRow(1, arg_date, None)>>,
                     <<ProfileRow(1, None, arg_date)>>,
                     <<ProfileRow(1, arg_date, Some(MaxDay))>>}
    /\ ranges = <<>>
    /\ clock = Val(arg_today)
    /\ resp = NoResponse
    /\ NoDiary

CallCalcByLmp ==
    /\ calc.fn = "" /\ Idle
    /\ calc' = [fn |-> "_calc_by_lmp",
                out |-> Return(_calc_by_lmp(Val(arg_date), Val(arg_today)))]
    /\ UNCHANGED <<arg_date, arg_today, db_vars, clock, resp, io_vars>>

CallCalcByDue ==
    /\ calc.fn = "" /\ Idle
    /\ calc' = [fn |-> "_calc_by_due",
                out |-> _calc_by_due(Val(arg_date), Val(arg_today))]
    /\ UNCHANGED <<arg_date, arg_today, db_vars, clock, resp, io_vars>>

AgreeGetProfile == calc.fn = "" /\ Idle /\ get_profile(Some(1))

AgreeGetLabs == calc.fn = "" /\ Idle /\ list_labs(Some(1))

AgreeGetLab == calc.fn = "" /\ Idle /\ get_lab(Some(1), 1)

NextAgree ==
    \/ CallCalcByLmp \/ CallCalcByDue
    \/ AgreeGetProfile \/ AgreeGetLabs \/ AgreeGetLab \/ Deliver

SpecAgree == InitAgree /\ [][NextAgree]_vars

(***************************************************************************)
(* PUT /profile one request after the other: user 1, who has one stored    *)
(* lab, sends bodies that hold or omit each of the three fields and reads  *)
(* /profile and /labs in between.                                          *)
(***************************************************************************)
\* an LMP 7 weeks back or none, a due date 27 weeks ahead or none, and notes
\* that are omitted, empty or a text
ReplacePayloads ==
    {[lmp_date |-> lmp, due_date |-> due, high_risk_notes |-> notes] :
        lmp \in {None, Some(StartDay - 50)},
        due \in {None, Some(StartDay + 189)},
        notes \in {None, Some(<<>>), Some(<<"x">>)}}

InitReplace ==
    /\ arg_date = None /\ arg_today = None /\ calc = NotCalled
    /\ users = <<ANN, BEA>>
    /\ labs = <<LabRow(1, 1, TSH, <<"2", ".", "0">>, StartDay)>>
    /\ profiles = <<>>
    /\ ranges = <<>>
    /\ clock = StartDay
    /\ symptoms = <<>> /\ medications = <<>> /\ scans = <<>> /\ messages = <<>>
    /\ resp = NoResponse
    /\ session = Some(1)
    /\ inflight = [run |-> <<NotRunning>>, last |-> None]
    /\ schema \in {[profile_user_unique |-> unique] : unique \in BOOLEAN}

ReplaceQuery == PutQueryOf(1, ReplacePayloads)
ReplaceCommit == PutCommit(1)
ReplaceRespond == PutRespond(1)

NextReplace ==
    \/ ReplaceQuery \/ ReplaceCommit \/ ReplaceRespond
    \/ ReadProfile \/ ReadLabs \/ Deliver

SpecReplace == InitReplace /\ [][NextReplace]_vars

(***************************************************************************)
(* Claims about the calculator, checked under SpecCalc.                    *)
(***************************************************************************)
CalledLmp == calc.fn = "calculate_by_lmp"
CalledDue == calc.fn = "calculate_by_due"
Returned == calc.out.raised = ""
Result == calc.out.value[1]
BothPresent == ~IsNone(arg_date) /\ ~IsNone(arg_today)

\* C1: every non-negative gestational age calculate_by_lmp returns has
\* trimester T1 for weeks 0..12, T2 for weeks 13..27 and T3 from week 28 on,
\* and an LMP 91 days before today gives 13 weeks, 0 days, T2.
C1_TrimesterByWeeks ==
    (CalledLmp /\ ~IsNone(Result.weeks)) =>
        LET w == Val(Result.weeks) IN
        /\ w >= 0
        /\ (w <= 12) => Result.trimester = "T1"
        /\ (13 <= w /\ w <= 27) => Result.trimester = "T2"
        /\ (w >= 28) => Result.trimester = "T3"
        /\ (Val(arg_today) - Val(arg_date) = 91) =>
               Result = [weeks |-> Some(13), days |-> Some(0), trimester |-> "T2"]

\* the spec's example has been computed: LMP 91 days before today, T2
C1_Witness ==
    /\ CalledLmp /\ BothPresent
    /\ Val(arg_today) - Val(arg_date) = 91
    /\ Result.trimester = "T2"

\* C2: for every lmp_date <= today, weeks*7 + days is the number of days
\* from lmp_date to today, and days is in 0..6.
C2_RoundTrip ==
    (CalledLmp /\ BothPresent /\ Val(arg_date) <= Val(arg_today)) =>
        /\ ~IsNone(Result.weeks) /\ ~IsNone(Result.days)
        /\ Val(Result.weeks) * 7 + Val(Result.days) = Val(arg_today) - Val(arg_date)
        /\ Val(Result.days) \in 0..6

\* a gestational age of 13 weeks and 6 days has been computed
C2_Witness ==
    /\ CalledLmp /\ BothPresent
    /\ Val(arg_today) - Val(arg_date) = 97
    /\ Result.weeks = Some(13) /\ Result.days = Some(6)

ImpliedLmp == IF CalledDue THEN Val(arg_date) - 280 ELSE Val(arg_date)

\* C4: invalid input is signalled by value and never by a fault: an absent
\* date or today, or an (implied) LMP after today, gives weeks = null,
\* days = null, trimester "-"; every other input gives non-null weeks and
\* days and a trimester among T1, T2, T3.
C4_ValueNeverFault ==
    (CalledLmp \/ CalledDue) =>
        /\ Returned
        /\ IF ~BothPresent \/ ImpliedLmp > Val(arg_today)
           THEN Result = NullResult
           ELSE /\ ~IsNone(Result.weeks) /\ ~IsNone(Result.days)
                /\ Result.trimester \in {"T1", "T2", "T3"}

(***************************************************************************)
(* Claims about the status evaluator, checked under SpecStatus.            *)
(***************************************************************************)
\* the lab objects of the last response, when it carries any
Served == resp.code \in {200, 201}
Entries == {resp.body[i] : i \in 1..Len(resp.body)}
T30 == <<"3", ".", "0">>
T31 == <<"3", ".", "1">>
T20 == <<"2", ".", "0">>

\* the stored reference ranges for an analyte name, upper-cased, and a trimester
RangesFor(name, tri) ==
    {ranges[i] : i \in {j \in 1..Len(ranges) :
                           ranges[j].analyte = upper(name) /\ ranges[j].trimester = tri}}

\* C5: when the result parses as a number, the trimester is T1, T2 or T3 and
\* a reference range (low, high) exists for the upper-cased analyte and the
\* trimester, the status is LOW for value < low, HIGH for value > high and
\* NORMAL otherwise, a value equal to low or to high being NORMAL; with the
\* seeded TSH range of T2, (0.2, 3.0), "3.0" is NORMAL and "3.1" is HIGH.
C5_StatusByRange ==
    Served =>
        \A e \in Entries :
            /\ \A rr \in RangesFor(e.test_name, e.trimester) :
                   (~IsNone(float(e.result)) /\ e.trimester \in {"T1", "T2", "T3"}) =>
                       LET value == Val(float(e.result)) IN
                       /\ e.status \in {"LOW", "HIGH", "NORMAL"}
                       /\ e.status = "LOW" <=> NumLt(value, rr.low)
                       /\ e.status = "HIGH" <=> NumGt(value, rr.high)
                       /\ (NumEq(value, rr.low) \/ NumEq(value, rr.high)) =>
                              e.status = "NORMAL"
            /\ (ranges # <<>> /\ upper(e.test_name) = TSH /\ e.trimester = "T2") =>
                   /\ e.ref_low = Some(Finite(2, 1)) /\ e.ref_high = Some(Finite(30, 1))
                   /\ e.result = T30 => e.status = "NORMAL"
                   /\ e.result = T31 => e.status = "HIGH"

\* a TSH of "3.0", on the upper bound of the seeded T2 range, was served NORMAL
C5_Witness ==
    /\ resp.op = "get_lab" /\ Served
    /\ \E e \in Entries :
           /\ e.test_name = TSH /\ e.result = T30 /\ e.trimester = "T2"
           /\ e.ref_high = Some(Finite(30, 1))
           /\ e.status = "NORMAL"

\* the profile the last request's user has, if any
ProfileOfRequest ==
    {profiles[i] : i \in {j \in 1..Len(profiles) :
                             ~IsNone(resp.sess) /\ profiles[j].user_id = Val(resp.sess)}}

\* C6: the status is NA, as a value of a served response, when the result
\* text parses as no number, when the trimester is none of T1, T2, T3 (the
\* "-" of a missing profile or of an LMP in the future included), or when
\* no reference range exists for the upper-cased analyte and the trimester;
\* in no other case is the status NA.
C6_StatusNA ==
    /\ Served =>
           \A e \in Entries :
               e.status = "NA" <=>
                   \/ IsNone(float(e.result))
                   \/ e.trimester \notin {"T1", "T2", "T3"}
                   \/ RangesFor(e.test_name, e.trimester) = {}
    /\ (resp.op \in {"get_lab", "list_labs"} /\ resp.sess = Some(1)
        /\ \A prof \in ProfileOfRequest :
               ~IsNone(prof.lmp_date) /\ Val(prof.lmp_date) > clock) =>
           /\ resp.code \in {200, 404}
           /\ \A e \in Entries : e.trimester = "-" /\ e.status = "NA"

\* with the ranges seeded and an LMP in the future, a numeric TSH was served
\* with trimester "-" and status NA
C6_Witness ==
    /\ resp.op = "get_lab" /\ Served /\ ranges # <<>>
    /\ \E prof \in ProfileOfRequest :
           ~IsNone(prof.lmp_date) /\ Val(prof.lmp_date) > clock
    /\ \E e \in Entries :
           /\ e.test_name = TSH /\ e.result = T30
           /\ e.trimester = "-" /\ e.status = "NA"

(***************************************************************************)
(* Claims about the previous result and the delta.                         *)
(***************************************************************************)
Rows == {labs[i] : i \in 1..Len(labs)}

\* the stored labs of the same user and the very same test_name, dated
\* earlier, or dated the same day with a smaller id
PriorsOf(lab) ==
    {r \in Rows :
        /\ r.user_id = lab.user_id
        /\ r.test_name = lab.test_name
        /\ (r.test_date < lab.test_date
            \/ (r.test_date = lab.test_date /\ r.id < lab.id))}

\* the greatest of a set of labs in (test_date, id) order
Latest(S) ==
    CHOOSE r \in S : \A q \in S :
        q.test_date < r.test_date \/ (q.test_date = r.test_date /\ q.id <= r.id)

\* the delta of a result against a previous one, both numbers, the previous not zero
DeltaAgainst(result, prev_result) ==
    Some(PctRounded(Val(float(result)), Val(float(prev_result))))

\* C7: the previous result used for a lab's delta is the greatest, in
\* (test_date, id) order, of the stored labs of the same user with exactly
\* the same test_name that are dated earlier, or the same day with a
\* smaller id; it is never the lab itself nor a lab later in that order.
C7_PreviousIsLatestPrior ==
    /\ \A lab \in Rows :
           LET prev == PrevLab(labs, lab.user_id, lab) IN
           IF PriorsOf(lab) = {} THEN IsNone(prev)
           ELSE /\ prev = Some(Latest(PriorsOf(lab)))
                /\ Val(prev).id # lab.id
                /\ Val(prev).test_date <= lab.test_date
                /\ Val(prev).test_date = lab.test_date => Val(prev).id < lab.id
    /\ Served =>
           \A e \in Entries :
               e.delta = IF PriorsOf(labs[e.id]) = {} THEN None
                         ELSE DeltaAgainst(e.result, Latest(PriorsOf(labs[e.id])).result)

\* lab 3 was served with the delta against lab 1, of the same day, and not
\* against lab 2, of the day before
C7_Witness ==
    /\ Len(labs) = 3
    /\ \A i \in 1..3 : labs[i].user_id = 1 /\ labs[i].test_name = TSH
    /\ labs[1].test_date = clock /\ labs[2].test_date < clock /\ labs[3].test_date = clock
    /\ resp.op = "get_lab" /\ resp.lab_id = Some(3) /\ Served
    /\ PrevLab(labs, 1, labs[3]) = Some(labs[1])
    /\ resp.body[1].delta = Some(Finite(0, 1))

Parses(text) == ~IsNone(float(text))
IsZero(text) == Parses(text) /\ NumEq(Val(float(text)), Zero)

\* C8: the delta is null, in a served response, when the lab has no previous
\* result, when its result parses as no number, when the previous result
\* parses as no number, or when the previous value is zero; in every other
\* case it is not null.
C8_DeltaNull ==
    /\ Served =>
           \A e \in Entries :
               IsNone(e.delta) <=>
                   \/ PriorsOf(labs[e.id]) = {}
                   \/ ~Parses(e.result)
                   \/ ~Parses(Latest(PriorsOf(labs[e.id])).result)
                   \/ IsZero(Latest(PriorsOf(labs[e.id])).result)
    /\ (resp.op \in {"get_lab", "list_labs"} /\ resp.sess = Some(1)) =>
           resp.code \in {200, 404}

\* a numeric result whose previous result is "0" was served with a null delta
C8_Witness ==
    /\ resp.op = "get_lab" /\ Served
    /\ \E e \in Entries :
           /\ PriorsOf(labs[e.id]) # {}
           /\ Parses(e.result) /\ ~IsZero(e.result)
           /\ Latest(PriorsOf(labs[e.id])).result = <<"0">>
           /\ IsNone(e.delta)

\* the entries of the last response whose result and previous result are
\* both numbers, the previous one not zero, with the two values
Compared ==
    {[e |-> e, curr |-> Val(float(e.result)),
      prev |-> Val(float(Latest(PriorsOf(labs[e.id])).result))] :
        e \in {x \in Entries :
                  /\ Served /\ PriorsOf(labs[x.id]) # {}
                  /\ Parses(x.result) /\ Parses(Latest(PriorsOf(labs[x.id])).result)
                  /\ ~IsZero(Latest(PriorsOf(labs[x.id])).result)}}

\* C9, as claimed: whenever both values parse and the previous one is not
\* zero, current > previous gives delta > 0 and current < previous gives
\* delta < 0.
C9_SignAsClaimed ==
    \A x \in Compared :
        /\ ~IsNone(x.e.delta)
        /\ NumGt(x.curr, x.prev) => NumGt(Val(x.e.delta), Zero)
        /\ NumLt(x.curr, x.prev) => NumLt(Val(x.e.delta), Zero)

\* the two values on the common scale of 10^-S, as integers
Scaled(x) ==
    LET S == IF x.curr.s > x.prev.s THEN x.curr.s ELSE x.prev.s
    IN [c |-> x.curr.m * Pow10(S - x.curr.s), p |-> x.prev.m * Pow10(S - x.prev.s)]

\* C9, amended: when both values are finite numbers and the previous one is
\* positive, current > previous gives delta >= 0 and current < previous
\* gives delta <= 0, and the delta is not zero once the change is at least
\* 0.1 % of the previous value; with a negative previous value the signs are
\* the opposite ones; a previous value of zero gives no delta.
C9_SignAmended ==
    /\ \A x \in Compared :
           (x.curr.kind = "finite" /\ x.prev.kind = "finite") =>
               LET c == Scaled(x).c
                   p == Scaled(x).p
                   d == Val(x.e.delta)
               IN /\ ~IsNone(x.e.delta) /\ d.kind = "finite"
                  /\ (p > 0 /\ c > p) => d.m >= 0
                  /\ (p > 0 /\ c < p) => d.m <= 0
                  /\ (p < 0 /\ c > p) => d.m <= 0
                  /\ (p < 0 /\ c < p) => d.m >= 0
                  /\ (1000 * Abs(c - p) >= Abs(p)) => d.m # 0
    /\ Served =>
           \A e \in Entries :
               (PriorsOf(labs[e.id]) # {} /\ IsZero(Latest(PriorsOf(labs[e.id])).result))
                   => IsNone(e.delta)

\* "2.0001" after "2.0", a rise of 0.005 %, was served with the delta 0.0
C9_Witness ==
    /\ resp.op = "list_labs"
    /\ \E x \in Compared : /\ x.curr = Finite(20001, 4) /\ x.prev = Finite(20, 1)
                           /\ x.e.delta = Some(Finite(0, 1))

\* C10: a delta that is present is ((current - previous) / previous) * 100
\* rounded to one decimal place: for finite values the tenth nearest to the
\* percent change, which is signed and relative to the previous value, and
\* nan or an infinity where float arithmetic gives one; "3.0" after "2.0"
\* has the delta 50.0.
C10_DeltaIsRoundedPercent ==
    \A x \in Compared :
        LET d == Val(x.e.delta) IN
        /\ ~IsNone(x.e.delta)
        /\ (x.curr.kind = "finite" /\ x.prev.kind = "finite") =>
               /\ d.kind = "finite" /\ d.s = 1
               /\ 2 * Abs(d.m * Scaled(x).p - 1000 * (Scaled(x).c - Scaled(x).p))
                      <= Abs(Scaled(x).p)
        /\ (x.curr.kind = "nan" \/ x.prev.kind # "finite") => d.kind = "nan"
        /\ (x.curr.kind = "inf" /\ x.prev.kind = "finite") =>
               d.kind = "inf" /\ d.m = x.curr.m * Sign(x.prev.m)
        /\ (x.e.result = T30 /\ Latest(PriorsOf(labs[x.e.id])).result = T20) =>
               d = Finite(500, 1)

\* "3.0" after "2.0" was served with the delta 50.0
C10_Witness ==
    /\ resp.op = "get_lab"
    /\ \E x \in Compared :
           /\ x.e.result = T30 /\ Latest(PriorsOf(labs[x.e.id])).result = T20
           /\ x.e.delta = Some(Finite(500, 1))

(***************************************************************************)
(* Claims about the profile and its readers, checked under SpecProfile.    *)
(***************************************************************************)
ProfileOps == {"get_profile", "upsert_profile"}
LabOps == {"list_labs", "get_lab", "create_lab"}
ContextOps == {"latest_msg", "symptom_ai_suggestion", "export_summary"}

\* the week and the trimester each object of the last response reports
Reports ==
    {[weeks |-> IF resp.op \in ProfileOps THEN resp.body[i].gestational_age_weeks
                ELSE IF resp.op \in ContextOps THEN resp.body[i].weeks
                ELSE None,
      has_weeks |-> resp.op \in ProfileOps \cup ContextOps,
      trimester |-> resp.body[i].trimester] : i \in 1..Len(resp.body)}

\* what a response must report when the weeks and trimester are those of r
ReportsAre(r) ==
    \A x \in Reports :
        /\ x.trimester = r.trimester
        /\ x.has_weeks => x.weeks = r.weeks

\* C11: for the profile of the user served, a present lmp_date alone gives
\* the weeks and the trimester that GET and PUT /profile, the labs
\* endpoints, GET /ai_messages, the symptom suggestion and the export
\* summary work out, whatever due_date holds, and the request is served;
\* due_date, less 280 days, gives them only when lmp_date is absent; PUT
\* /profile stores both dates and reports them.
C11_LmpPrecedence ==
    (resp.op \in ProfileOps \cup LabOps \cup ContextOps /\ ~IsNone(resp.sess)) =>
        \A prof \in ProfileOfRequest :
            /\ ~IsNone(prof.lmp_date) =>
                   /\ resp.code # 500
                   /\ resp.code = 200 =>
                          ReportsAre(calculate_by_lmp(prof.lmp_date, Some(clock)))
            /\ (IsNone(prof.lmp_date) /\ ~IsNone(prof.due_date) /\ resp.code = 200) =>
                   ReportsAre(calculate_by_lmp(Some(Val(prof.due_date) - 280), Some(clock)))
            /\ (resp.op \in ProfileOps /\ resp.code = 200) =>
                   /\ resp.body[1].lmp_date = prof.lmp_date
                   /\ resp.body[1].due_date = prof.due_date

\* a profile holding an LMP 7 weeks back and a due date 27 weeks ahead (13
\* weeks by the due date) is stored with both dates
BothDatesStored ==
    \E prof \in ProfileOfRequest :
        /\ prof.lmp_date = Some(clock - 50)
        /\ prof.due_date = Some(clock + 189)

\* PUT /profile, GET /labs/<id> or the export summary has served that
\* profile by its LMP: 7 weeks, T1
C11_Witness ==
    /\ BothDatesStored /\ resp.code = 200
    /\ resp.op \in {"upsert_profile", "get_lab", "export_summary"}
    /\ \A x \in Reports : x.trimester = "T1" /\ (x.has_weeks => x.weeks = Some(7))
    /\ Reports # {}

(***************************************************************************)
(* Claims about the whole API, checked under SpecApi.                      *)
(***************************************************************************)
LabColumns == {"id", "user_id", "test_name", "result", "units", "test_date"}

\* every stored lab is kept as it is by the step, the new ones coming after
LabsKept ==
    /\ Len(labs') >= Len(labs)
    /\ \A i \in 1..Len(labs) : labs'[i] = labs[i]

\* C12: no request removes or rewrites a stored lab (its user, test_name,
\* result, units and test_date stay what they were); the Lab table changes
\* only by POST /labs and POST /exports/seed_correlation_demo adding
\* records; and a record holds the six columns of a lab, neither a previous
\* result nor a delta.
C12_AppendOnly ==
    /\ [](\A i \in 1..Len(labs) : DOMAIN labs[i] = LabColumns /\ labs[i].id = i)
    /\ [][/\ LabsKept
          /\ labs' # labs => resp'.op \in {"create_lab", "seed_correlation_demo"}]_vars

\* a lab stored by POST /labs is still the first record after the demo
\* seeding has added four labs of its own and the list has been read
C12_Witness ==
    /\ Len(labs) = 5
    /\ labs[1].result = T20 /\ labs[1].test_date = clock - 1 /\ labs[1].units = None
    /\ labs[5].result = T33 /\ labs[5].test_date = clock
    /\ resp.op = "list_labs" /\ resp.code = 200 /\ Len(resp.body) = 5

(***************************************************************************)
(* Claims about handlers that run at once, checked under SpecPut.          *)
(***************************************************************************)
ProfilesOf(user_id) == {i \in 1..Len(profiles) : profiles[i].user_id = user_id}

\* what GET /profile answers user 1 in this state
ProfileNow == _to_out(ProfileFirst(profiles, 1), clock).value[1]

\* C13, as claimed: after any PUT /profile requests of one user, those whose
\* handlers interleave included, the user has at most one Profile record,
\* and GET /profile returns the dates of the PUT that committed last.
C13_OneProfileLastPut ==
    /\ \A u \in 1..Len(users) : Cardinality(ProfilesOf(u)) <= 1
    /\ ~IsNone(inflight.last) =>
           /\ ProfileNow.lmp_date = Val(inflight.last).lmp_date
           /\ ProfileNow.due_date = Val(inflight.last).due_date

(***************************************************************************)
(* Claims about handlers of POST /labs that run at once, checked under     *)
(* SpecPost.                                                               *)
(***************************************************************************)
\* the rows among those given that come before the lab in (test_date, id)
\* order and belong to the same user and analyte
PriorsAmong(rows, lab) ==
    {rows[i] : i \in {j \in 1..Len(rows) :
        /\ rows[j].user_id = lab.user_id
        /\ rows[j].test_name = lab.test_name
        /\ (rows[j].test_date < lab.test_date
            \/ (rows[j].test_date = lab.test_date /\ rows[j].id < lab.id))}}

\* the delta of a lab as the (test_date, id) order of the rows given has it
DeltaInOrder(rows, lab) ==
    IF PriorsAmong(rows, lab) = {} THEN None
    ELSE LET prev == Latest(PriorsAmong(rows, lab)) IN
         IF ~Parses(lab.result) \/ ~Parses(prev.result) \/ IsZero(prev.result)
         THEN None
         ELSE DeltaAgainst(lab.result, prev.result)

\* C14: however the handlers of POST /labs interleave, the stored labs have
\* distinct ids, the previous result of each stored lab is the latest, in
\* (test_date, id) order, of the committed labs of the same user and analyte
\* that come before it (a lab of an earlier day whatever its id, a lab of the
\* same day when its id is smaller), and every response carries the delta
\* that this order gives on the rows committed when it is written.
C14_PrevByDateThenId ==
    /\ [](/\ \A i \in 1..Len(labs) : labs[i].id = i
          /\ \A i \in 1..Len(labs) :
                 PrevLab(labs, labs[i].user_id, labs[i]) =
                     IF PriorsAmong(labs, labs[i]) = {} THEN None
                     ELSE Some(Latest(PriorsAmong(labs, labs[i])))
          /\ \A i, j \in 1..Len(labs) :
                 (/\ labs[i].user_id = labs[j].user_id
                  /\ labs[i].test_name = labs[j].test_name
                  /\ labs[i].test_date = labs[j].test_date /\ i < j) =>
                     PrevLab(labs, labs[i].user_id, labs[i]) # Some(labs[j]))
    /\ [][(resp' # resp /\ resp'.code \in {200, 201}) =>
              \A k \in 1..Len(resp'.body) :
                  resp'.body[k].delta = DeltaInOrder(labs', labs'[resp'.body[k].id])]_vars

\* the handler that committed a result of today first answers after another
\* handler committed a result of yesterday: its response has the delta
\* against the row committed later, 50.0
C14_Witness ==
    /\ Len(labs) >= 2
    /\ labs[1].test_date = StartDay /\ labs[1].result = D3
    /\ labs[2].test_date = StartDay - 1 /\ labs[2].result = D2
    /\ resp.op = "create_lab" /\ resp.code = 201 /\ resp.lab_id = Some(1)
    /\ resp.body[1].delta = Some(Finite(500, 1))
    /\ \E h \in Handlers : inflight.run[h].pc = "committed" /\ inflight.run[h].at = 2

(***************************************************************************)
(* Claims about the fields of the lab objects, checked under SpecFields.   *)
(***************************************************************************)
\* the step writes the response of one of the operations given
Answers(ops) == resp' # resp /\ resp'.op \in ops

\* the lab object that a read of the stored data on this day gives for a lab
ReadAgain(lab) ==
    Enriched(labs, ranges, lab.user_id, lab,
             _current_trimester(ProfileFirst(profiles, lab.user_id), clock).value[1])

\* C15: GET /labs and GET /labs/<id> leave the Lab, Profile and
\* ReferenceRange tables as they are, POST /labs changes nothing but the Lab
\* table, to which it adds its one record, and the lab objects of a response
\* are those the same read gives again on the stored data and the same day.
C15_ReadsLeaveStores ==
    /\ [][Answers({"list_labs", "get_lab"}) => UNCHANGED <<labs, profiles, ranges>>]_vars
    /\ [][Answers({"create_lab"}) =>
              /\ UNCHANGED <<profiles, ranges>>
              /\ \/ labs' = labs
                 \/ /\ Len(labs') = Len(labs) + 1
                    /\ SubSeq(labs', 1, Len(labs)) = labs]_vars
    /\ []((resp.op \in LabOps /\ Served) =>
              \A e \in Entries : e = ReadAgain(labs[e.id]))

\* a second result was read by GET /labs/<id> in the second trimester with
\* the ranges seeded: HIGH, with a delta against the first result
C15_Witness ==
    /\ resp.op = "get_lab" /\ resp.code = 200
    /\ Len(labs) = 2 /\ ranges # <<>>
    /\ resp.body[1].id = 2
    /\ resp.body[1].status = "HIGH" /\ resp.body[1].trimester = "T2"
    /\ ~IsNone(resp.body[1].delta)

\* the profile of the user of the last request has a due date before
\* 0001-10-08 and no LMP: the subtraction of 280 days faults (C4)
DueOutOfRange ==
    \E prof \in ProfileOfRequest :
        /\ IsNone(prof.lmp_date)
        /\ ~IsNone(prof.due_date) /\ Val(prof.due_date) - 280 < DateMinOrdinal

\* C16: every lab object of a response of GET /labs, POST /labs and
\* GET /labs/<id> has a trimester among T1, T2, T3, "-" and a status among
\* LOW, HIGH, NORMAL, NA, and the trimester "-" comes with the status NA;
\* the trimester is "-" when the user has no profile, a profile with no
\* date or an LMP in the future. The objects are returned for every profile
\* but the one whose only date is a due date before 0001-10-08, on which the
\* request ends in HTTP 500 with no lab object.
C16_FieldDomains ==
    (resp.op \in LabOps /\ resp.sess = Some(1)) =>
        /\ resp.code = 500 => DueOutOfRange
        /\ DueOutOfRange => resp.code \in {400, 404, 500}
        /\ (DueOutOfRange /\ resp.op = "list_labs") => resp.code = 500
        /\ resp.code \in {200, 201, 400, 404, 500}
        /\ Served =>
               \A e \in Entries :
                   /\ e.trimester \in {"T1", "T2", "T3", "-"}
                   /\ e.status \in {"LOW", "HIGH", "NORMAL", "NA"}
                   /\ e.trimester = "-" => e.status = "NA"
                   /\ (\/ ProfileOfRequest = {}
                       \/ \E prof \in ProfileOfRequest :
                              \/ IsNone(prof.lmp_date) /\ IsNone(prof.due_date)
                              \/ ~IsNone(prof.lmp_date) /\ Val(prof.lmp_date) > clock)
                          => e.trimester = "-"

\* POST /labs of a numeric TSH by a user whose profile has no date, the
\* ranges being seeded, returned trimester "-" and status NA
C16_Witness ==
    /\ resp.op = "create_lab" /\ resp.code = 201
    /\ ranges # <<>>
    /\ \E prof \in ProfileOfRequest : IsNone(prof.lmp_date) /\ IsNone(prof.due_date)
    /\ resp.body[1].result = D31 /\ resp.body[1].test_name = TSH
    /\ resp.body[1].trimester = "-" /\ resp.body[1].status = "NA"

\* C17: ref_low, ref_high and ref_unit of a returned lab are the low, high
\* and unit of the stored reference range of the upper-cased test_name and
\* the trimester of the object, and are all null when there is no such
\* range; with a status of LOW, HIGH or NORMAL the three are not null and
\* the status is LOW for a value below ref_low, HIGH for a value above
\* ref_high and NORMAL otherwise.
C17_RefFields ==
    (resp.op \in LabOps /\ Served) =>
        \A e \in Entries :
            /\ IF RangesFor(e.test_name, e.trimester) = {}
               THEN IsNone(e.ref_low) /\ IsNone(e.ref_high) /\ IsNone(e.ref_unit)
               ELSE \E rr \in RangesFor(e.test_name, e.trimester) :
                        /\ e.ref_low = Some(rr.low)
                        /\ e.ref_high = Some(rr.high)
                        /\ e.ref_unit = Some(rr.unit)
            /\ e.status \in {"LOW", "HIGH", "NORMAL"} =>
                   /\ ~IsNone(e.ref_low) /\ ~IsNone(e.ref_high) /\ ~IsNone(e.ref_unit)
                   /\ Parses(e.result)
                   /\ e.status = "LOW" <=> NumLt(Val(float(e.result)), Val(e.ref_low))
                   /\ e.status = "HIGH" <=> NumGt(Val(float(e.result)), Val(e.ref_high))

\* a "tsh" of 0.1 was returned in the third trimester as LOW with the bounds
\* 0.3 and 3.0 of the seeded TSH range of T3, and an FT3 with no bounds
C17_Witness ==
    /\ resp.op = "list_labs" /\ resp.code = 200 /\ Len(resp.body) = 2
    /\ \E e \in Entries :
           /\ e.test_name = tsh /\ e.result = D01 /\ e.trimester = "T3"
           /\ e.status = "LOW"
           /\ e.ref_low = Some(Finite(3, 1)) /\ e.ref_high = Some(Finite(30, 1))
           /\ e.ref_unit = Some("mIU/L")
    /\ \E e \in Entries :
           e.test_name = FT3 /\ IsNone(e.ref_low) /\ IsNone(e.ref_high) /\ IsNone(e.ref_unit)

\* C18: two returned labs whose test_name differ in letter case only and that
\* have the same result and the same trimester have the same status and the
\* same ref_low, ref_high and ref_unit, those of the upper-cased name.
C18_CaseInsensitiveLookup ==
    (resp.op \in LabOps /\ Served) =>
        \A e1, e2 \in Entries :
            (/\ upper(e1.test_name) = upper(e2.test_name)
             /\ e1.result = e2.result
             /\ e1.trimester = e2.trimester) =>
                /\ e1.status = e2.status
                /\ e1.ref_low = e2.ref_low
                /\ e1.ref_high = e2.ref_high
                /\ e1.ref_unit = e2.ref_unit
                /\ e1.status = ReadAgain([labs[e1.id] EXCEPT
                                              !.test_name = upper(e1.test_name)]).status

\* GET /labs returned a "tsh" and a "Tsh" of 3.1 in the second trimester,
\* both HIGH against the TSH range (0.2, 3.0)
C18_Witness ==
    /\ resp.op = "list_labs" /\ resp.code = 200
    /\ \E e1, e2 \in Entries :
           /\ e1.test_name = tsh /\ e2.test_name = Tsh
           /\ e1.result = D31 /\ e2.result = D31
           /\ e1.trimester = "T2"
           /\ e1.status = "HIGH" /\ e2.status = "HIGH"
           /\ e1.ref_high = Some(Finite(30, 1)) /\ e2.ref_high = Some(Finite(30, 1))

(***************************************************************************)
(* Claims about the guard of the blueprints, checked under SpecApi.        *)
(***************************************************************************)
\* the handlers of the labs, profile, symptoms, medications, ai and exports
\* blueprints
GuardedOps ==
    {"list_labs", "create_lab", "get_lab", "get_profile", "upsert_profile",
     "list_symptoms", "create_symptom", "delete_symptom", "symptom_ai_suggestion",
     "list_medications", "create_medication", "list_scans", "create_scan",
     "food_chat", "get_encouragement_message", "latest_msg", "export_summary",
     "seed_correlation_demo"}

\* the session holds the id of a stored user
HoldsUser(sess) == ~IsNone(sess) /\ Val(sess) \in 1..Len(users)

\* the rows of a table that belong to other users than the one given
RowsOfOthers(rows, user_id) == SelectSeq(rows, LAMBDA row : row.user_id # user_id)

\* C19: a request other than OPTIONS to a handler of the six guarded
\* blueprints is answered 401 exactly when its session holds no id of a
\* stored user (no cookie, a cookie of no stored user, or after POST
\* /logout), and the step that answers 401 changes no table and not the
\* session; a request of a session that POST /login has set is served, its
\* response is for that user and it changes no row of another user; an
\* OPTIONS request passes the guard.
C19_AuthGuard ==
    /\ []((resp.op \in GuardedOps) => (resp.code = 401 <=> ~HoldsUser(resp.sess)))
    /\ [](resp.op = "OPTIONS" => resp.code = 200)
    /\ [](resp.op = "login" /\ resp.code = 200 =>
              HoldsUser(session) /\ Val(session) = resp.body[1].user_id)
    /\ [](resp.op = "logout" => session = None)
    /\ [][(resp' # resp /\ resp'.op \in GuardedOps) =>
              /\ resp'.sess = session /\ UNCHANGED <<users, session>>
              /\ ~HoldsUser(session) => resp'.code = 401 /\ UNCHANGED db_vars
              /\ HoldsUser(session) =>
                     /\ resp'.code # 401
                     /\ RowsOfOthers(labs', Val(session)) = RowsOfOthers(labs, Val(session))
                     /\ RowsOfOthers(profiles', Val(session))
                            = RowsOfOthers(profiles, Val(session))
                     /\ RowsOfOthers(symptoms', Val(session))
                            = RowsOfOthers(symptoms, Val(session))
                     /\ RowsOfOthers(medications', Val(session))
                            = RowsOfOthers(medications, Val(session))
                     /\ RowsOfOthers(scans', Val(session))
                            = RowsOfOthers(scans, Val(session))
                     /\ RowsOfOthers(messages', Val(session))
                            = RowsOfOthers(messages, Val(session))]_vars

\* after a login that stored a lab and a symptom and a POST /logout, the
\* DELETE of the symptom is answered 401 and the rows are still there
C19_Witness ==
    /\ resp.op = "delete_symptom" /\ resp.code = 401
    /\ session = None
    /\ Len(labs) = 1 /\ Len(symptoms) = 1

(***************************************************************************)
(* Claims about the labs of two users, checked under Spec.                 *)
(***************************************************************************)
\* the stored labs of a user, in the order of the table
LabsOwnedBy(user_id) == SelectSeq(labs, LAMBDA row : row.user_id = user_id)

\* C20: GET /labs returns the labs of the session user, all of them and no
\* other; GET /labs/<id> answers 404 for an id that is stored for another
\* user (and for an id that is not stored) and 200 for an id of the user;
\* the previous result of a stored lab is a lab of the same user; and every
\* lab object of a response is the one computed from the rows of the
\* session user alone, so the rows of other users do not change it.
C20_UserIsolation ==
    /\ \A i \in 1..Len(labs) :
           LET prev == PrevLab(labs, labs[i].user_id, labs[i]) IN
           ~IsNone(prev) => Val(prev).user_id = labs[i].user_id
    /\ (resp.op \in LabOps /\ Served) =>
           LET u == Val(resp.sess) IN
           /\ \A e \in Entries :
                  /\ labs[e.id].user_id = u
                  /\ e = Enriched(LabsOwnedBy(u), ranges, u, labs[e.id],
                                  _current_trimester(ProfileFirst(profiles, u),
                                                     clock).value[1])
           /\ resp.op = "list_labs" =>
                  {e.id : e \in Entries} = {i \in 1..Len(labs) : labs[i].user_id = u}
    /\ (resp.op = "get_lab" /\ HoldsUser(resp.sess)) =>
           LET lab_id == Val(resp.lab_id) IN
           /\ resp.code \in {200, 404}
           /\ resp.code = 404 <=>
                  (lab_id \notin 1..Len(labs) \/ labs[lab_id].user_id # Val(resp.sess))

\* user 2, whose TSH of today follows a TSH of user 1 of the day before, was
\* served that one lab by GET /labs, with no delta
C20_Witness ==
    /\ Len(labs) = 2
    /\ labs[1].user_id = 1 /\ labs[1].test_name = TSH /\ labs[1].test_date = StartDay - 1
    /\ labs[2].user_id = 2 /\ labs[2].test_name = TSH /\ labs[2].test_date = StartDay
    /\ resp.op = "list_labs" /\ resp.code = 200 /\ resp.sess = Some(2)
    /\ Len(resp.body) = 1 /\ resp.body[1].id = 2 /\ IsNone(resp.body[1].delta)

(***************************************************************************)
(* Claims about the two calculators, checked under SpecAgree.              *)
(***************************************************************************)
\* the trimester that the labs endpoints attach for the stored profile of
\* user 1 today: the outcome of _current_trimester, None shown as "-"
LabsTrimester ==
    LET tri == _current_trimester(ProfileFirst(profiles, 1), clock) IN
    IF tri.raised # "" THEN Raise(tri.raised)
    ELSE Return(IF IsNone(tri.value[1]) THEN "-" ELSE Val(tri.value[1]))

\* C21: for every date and today, _calc_by_lmp returns the weeks and the
\* trimester of calculate_by_lmp, and _calc_by_due those of
\* calculate_by_due, both faulting on the same due dates; so for the same
\* stored profile on the same day GET /profile shows the trimester that
\* GET /labs and GET /labs/<id> attach to the labs ("-" on both sides when
\* no date is usable), and one is answered 500 exactly when the other is.
C21_CalculatorsAgree ==
    /\ calc.fn = "_calc_by_lmp" =>
           LET ref == calculate_by_lmp(arg_date, arg_today) IN
           /\ calc.out.value[1].weeks = ref.weeks
           /\ calc.out.value[1].tri = ref.trimester
    /\ calc.fn = "_calc_by_due" =>
           LET ref == calculate_by_due(arg_date, arg_today) IN
           /\ calc.out.raised = ref.raised
           /\ ref.raised = "" =>
                  /\ calc.out.value[1].weeks = ref.value[1].weeks
                  /\ calc.out.value[1].tri = ref.value[1].trimester
    /\ resp.op = "get_profile" =>
           /\ resp.code = 500 <=> LabsTrimester.raised # ""
           /\ resp.code = 200 => resp.body[1].trimester = LabsTrimester.value[1]
    /\ resp.op \in {"list_labs", "get_lab"} =>
           LET out == _to_out(ProfileFirst(profiles, 1), clock) IN
           /\ resp.code = 500 <=> out.raised # ""
           /\ resp.code = 200 =>
                  \A e \in Entries : e.trimester = out.value[1].trimester

\* GET /profile showed T2 for a profile whose only date is a due date 27
\* weeks ahead of the last day, 13 weeks by the implied LMP
C21_Witness ==
    /\ resp.op = "get_profile" /\ resp.code = 200
    /\ clock = MaxDay
    /\ profiles = <<ProfileRow(1, None, Some(MaxDay + 189))>>
    /\ resp.body[1].trimester = "T2"
    /\ resp.body[1].gestational_age_weeks = Some(13)
    /\ LabsTrimester = Return("T2")

(***************************************************************************)
(* Claims about the listing and its deltas, checked under Spec.            *)
(***************************************************************************)
\* entry a of a listing stands before entry b in (test_date, id) order
ListedBefore(a, b) ==
    a.test_date < b.test_date \/ (a.test_date = b.test_date /\ a.id < b.id)

\* the places before place k of the listing that hold the test_name of place k
EarlierSameName(body, k) == {j \in 1..(k - 1) : body[j].test_name = body[k].test_name}

\* the greatest number of a non-empty set of numbers
Greatest(S) == CHOOSE n \in S : \A m \in S : m <= n

\* C22: the GET /labs response is in ascending (test_date, id) order; the
\* delta of each entry is the one against the nearest earlier entry of the
\* list with the identical test_name (null when either result is no number
\* or that entry's value is zero), and the first entry of each test_name
\* has a null delta; and a POST /labs leaves the delta of every stored lab
\* that precedes the new one in (test_date, id) order as it was.
C22_DeltaFollowsListing ==
    /\ []((resp.op = "list_labs" /\ resp.code = 200) =>
              /\ \A j, k \in 1..Len(resp.body) :
                     j < k => ListedBefore(resp.body[j], resp.body[k])
              /\ \A k \in 1..Len(resp.body) :
                     LET e == resp.body[k]
                         near == EarlierSameName(resp.body, k)
                     IN IF near = {} THEN IsNone(e.delta)
                        ELSE LET prev == resp.body[Greatest(near)] IN
                             e.delta =
                                 IF ~Parses(e.result) \/ ~Parses(prev.result)
                                    \/ IsZero(prev.result)
                                 THEN None
                                 ELSE DeltaAgainst(e.result, prev.result))
    /\ [][(Len(labs') = Len(labs) + 1) =>
              \A i \in 1..Len(labs) :
                  /\ labs'[i] = labs[i]
                  /\ ListedBefore(labs[i], labs'[Len(labs')]) =>
                         _delta_for_lab(labs', labs[i].user_id, labs[i])
                             = _delta_for_lab(labs, labs[i].user_id, labs[i])]_vars

\* after the POST of a result of yesterday between two of today, GET /labs
\* lists it first with no delta, then the first of today with 50.0 against
\* it, then the second of today with 0.0
C22_Witness ==
    /\ resp.op = "list_labs" /\ resp.code = 200 /\ Len(resp.body) = 3
    /\ resp.body[1].id = 2 /\ resp.body[2].id = 1 /\ resp.body[3].id = 3
    /\ \A k \in 1..3 : resp.body[k].test_name = TSH
    /\ IsNone(resp.body[1].delta)
    /\ resp.body[2].delta = Some(Finite(500, 1))
    /\ resp.body[3].delta = Some(Finite(0, 1))

(***************************************************************************)
(* Claims about the status of special values, checked under SpecStatus.    *)
(***************************************************************************)
\* a <= b on floats: false when either is nan
NumLe(a, b) == NumLt(a, b) \/ NumEq(a, b)

\* the status of a returned lab whose parsed value is of one of the kinds
\* given says where the value lies against the range of its analyte and
\* trimester
SoundFor(kinds) ==
    Served =>
        \A e \in Entries :
            (Parses(e.result) /\ Val(float(e.result)).kind \in kinds
             /\ e.status \in {"LOW", "HIGH", "NORMAL"}) =>
                /\ RangesFor(e.test_name, e.trimester) # {}
                /\ \A rr \in RangesFor(e.test_name, e.trimester) :
                       LET value == Val(float(e.result)) IN
                       /\ e.status = "NORMAL" =>
                              NumLe(rr.low, value) /\ NumLe(value, rr.high)
                       /\ e.status = "LOW" => NumLt(value, rr.low)
                       /\ e.status = "HIGH" => NumGt(value, rr.high)

\* C23: for every result text that float() accepts, "nan", "inf" and "-inf"
\* included, a status NORMAL means low <= value <= high, LOW means
\* value < low and HIGH means value > high.
C23_StatusSound == SoundFor({"finite", "inf", "nan"})

(***************************************************************************)
(* Claims about PUT /profile one request after the other, checked under    *)
(* SpecReplace.                                                            *)
(***************************************************************************)
\* the trimester that the dates of a request body give on this day
TrimesterOfBody(body) ==
    IF ~IsNone(body.lmp_date)
    THEN calculate_by_lmp(body.lmp_date, Some(clock)).trimester
    ELSE IF ~IsNone(body.due_date)
    THEN calculate_by_lmp(Some(Val(body.due_date) - 280), Some(clock)).trimester
    ELSE "-"

\* the one stored profile of user 1 holds the dates of the body given, an
\* omitted date as null, and the notes given
StoredIs(body, notes) ==
    /\ Cardinality(ProfilesOf(1)) = 1
    /\ \A i \in ProfilesOf(1) :
           /\ profiles[i].lmp_date = body.lmp_date
           /\ profiles[i].due_date = body.due_date
           /\ profiles[i].high_risk_notes = notes

\* PUT /profile, GET /profile and GET /labs answered after a commit work the
\* trimester out from the dates of the body committed last
TrimesterOfLastBody ==
    (resp' # resp /\ resp'.code = 200 /\ ~IsNone(inflight'.last)
     /\ resp'.op \in {"get_profile", "list_labs", "upsert_profile"}) =>
        \A k \in 1..Len(resp'.body) :
            resp'.body[k].trimester = TrimesterOfBody(Val(inflight'.last))

====
